---- MODULE Spec2Model ----
(***************************************************************************)
(* Tea/snack tracker: the billing reconciliation engine                    *)
(* (BillingService.calculateBilling, per-item adjustment variant) and the  *)
(* tally / gap-fill calculator (TallyAutomation.calculationResult).        *)
(***************************************************************************)
EXTENDS Integers, Sequences, FiniteSets, TLC

VARIABLES consumptions, employees, activeEmployeeCount, dailyAdjustments,
          today, result, tally,
          tz, range, dailyGroupedLogs,     \* the report screen
          screen,                          \* its drafts and adjustment date
          cacheItems, fetches, form,       \* the cache, the remote calls, the entry form
          isLoaded, fallback,              \* cache.isLoaded, the FALLBACK_ arrays
          remote, sessions                 \* the store's sheet, the sessions' tables

reportVars == <<tz, range, dailyGroupedLogs, screen>>

loadVars == <<isLoaded, fallback, remote, sessions>>

storeVars == <<cacheItems, fetches, form, loadVars>>

vars == <<consumptions, employees, activeEmployeeCount, dailyAdjustments,
          today, result, tally, reportVars, storeVars>>

(***************************************************************************)
(* Bounds of the model                                                     *)
(***************************************************************************)
MaxLogs == 2        \* longest consumption list
MaxQty == 2         \* largest quantity of one record
MaxAdj == 3         \* largest count stored in the adjustment table
MaxAdjEntries == 1  \* most (day, employee, item) entries in the table
NumDays == 2        \* calendar days the clock and the records range over
MaxHeadcount == 3   \* largest active headcount handed to the tally
MaxTallyLogs == 2   \* longest one-day list handed to the tally

(***************************************************************************)
(* Input domains                                                           *)
(***************************************************************************)
EmpIds == {"e1", "e2"}
Days == 1..NumDays
Hours == {12}

\* the catalogue the entry form copies itemId, itemType and price from
Catalogue == { [itemId |-> "tea",   itemType |-> "drink", price |-> 10],
               [itemId |-> "bonda", itemType |-> "snack", price |-> 10],
               [itemId |-> "vada",  itemType |-> "snack", price |-> 15] }

SnackIds == { it.itemId : it \in { c \in Catalogue : c.itemType = "snack" } }

Max(a, b) == IF a >= b THEN a ELSE b
Min(a, b) == IF a <= b THEN a ELSE b

\* types.ts Employee
NameTable == [e1 |-> "Gopalan", e2 |-> "Navin"]

Employee(id, active) == [id |-> id, name |-> NameTable[id], isActive |-> active]

\* employee lists with pairwise distinct ids; e2 is missing from the second
\* storageService.ts FALLBACK_EMPLOYEES and FALLBACK_ITEMS as written
FALLBACK_EMPLOYEES == << Employee("e1", TRUE), Employee("e2", TRUE) >>

FallbackItem(id, price, type) ==
    [id |-> id, name |-> id, price |-> price, type |-> type, isActive |-> TRUE]

FALLBACK_ITEMS ==
    << FallbackItem("tea", 10, "drink"), FallbackItem("coffee", 15, "drink"),
       FallbackItem("milk", 10, "drink"), FallbackItem("bonda", 10, "snack"),
       FallbackItem("bajji", 10, "snack"), FallbackItem("vada", 10, "snack") >>

EmployeeLists == { << Employee("e1", TRUE), Employee("e2", TRUE) >>,
                   << Employee("e1", TRUE) >> }

\* types.ts Consumption (with the quantity the entry form and the loader add);
\* date is the ISO timestamp, kept as calendar day and hour
Consumption(id, e, it, d, h, q) ==
    [id |-> id, employeeId |-> e, itemId |-> it.itemId, itemType |-> it.itemType,
     price |-> it.price, date |-> [ymd |-> d, hh |-> h], quantity |-> q]

Protos == { <<e, it, d, h, q>> : e \in EmpIds, it \in Catalogue, d \in Days,
                                h \in Hours, q \in 1..MaxQty }

SeqsUpTo(S, n) == UNION { [1..k -> S] : k \in 0..n }

\* lists of records whose ids are pairwise distinct (the position in the list)
WithIds(ps) == [k \in 1..Len(ps) |->
                  Consumption(k, ps[k][1], ps[k][2], ps[k][3], ps[k][4], ps[k][5])]

ConsumptionLists(S, n) == { WithIds(ps) : ps \in SeqsUpTo(S, n) }

\* DailyAdjustmentMap: date -> employeeId -> itemId -> count, sparse
AdjKeys == Days \X EmpIds \X SnackIds

Nest(f) ==
    [d \in { k[1] : k \in DOMAIN f } |->
       [e \in { k[2] : k \in { x \in DOMAIN f : x[1] = d } } |->
          [i \in { k[3] : k \in { x \in DOMAIN f : x[1] = d /\ x[2] = e } } |->
             f[<<d, e, i>>]]]]

EmptyMap == [k \in {} |-> 0]

AdjTables == { Nest(f) : f \in UNION { [K -> 1..MaxAdj] :
                   K \in { S \in SUBSET AdjKeys : Cardinality(S) <= MaxAdjEntries } } }

(***************************************************************************)
(* Helpers on sequences                                                    *)
(***************************************************************************)
RECURSIVE ConcatAll(_)
ConcatAll(ss) == IF ss = <<>> THEN <<>> ELSE Head(ss) \o ConcatAll(Tail(ss))

RECURSIVE SumSeq(_)
SumSeq(ns) == IF ns = <<>> THEN 0 ELSE Head(ns) + SumSeq(Tail(ns))

\* keys of a Record<string, ...> built by pushing: first-insertion order
RECURSIVE KeysInOrder(_)
KeysInOrder(ks) ==
    IF ks = <<>> THEN <<>>
    ELSE LET rest == KeysInOrder(SubSeq(ks, 1, Len(ks) - 1))
             last == ks[Len(ks)]
         IN IF \E k \in DOMAIN rest : rest[k] = last THEN rest
            ELSE Append(rest, last)

\* Object.keys(groupedByDate).sort(): the day keys in ascending order
RECURSIVE SortedSet(_)
SortedSet(S) ==
    IF S = {} THEN <<>>
    ELSE LET m == CHOOSE x \in S : \A y \in S : x <= y
         IN <<m>> \o SortedSet(S \ {m})

Range(s) == { s[k] : k \in DOMAIN s }

(***************************************************************************)
(* billingService.ts                                                       *)
(***************************************************************************)
\* the quantity ignored: every record counted as one unit
QtyOf_One(log) == 1

\* log.quantity || 1
QtyOf(log) == IF log.quantity = 0 THEN 1 ELSE log.quantity

\* every record taken as one unit, whatever its quantity
expandConsumptions_NoCopies(logs) == logs

\* a record of quantity N becomes N copies { ...log }
RECURSIVE expandConsumptions(_)
expandConsumptions(logs) ==
    IF logs = <<>> THEN <<>>
    ELSE [k \in 1..QtyOf(Head(logs)) |-> Head(logs)]
         \o expandConsumptions(Tail(logs))

\* c.date.split('T')[0]
DateKey(c) == c.date.ymd

\* Number(x.price) || 0, on the numeric prices the loader and the form store
PriceOf(c) == c.price

SumPrices(items) == SumSeq([k \in DOMAIN items |-> PriceOf(items[k])])

groupedByDate(cons, date) == SelectSeq(cons, LAMBDA c : DateKey(c) = date)

sortedDates(cons) == SortedSet({ DateKey(cons[k]) : k \in DOMAIN cons })

\* dailyAdjustments[date] || {}, todaysAdjustments[empId] || {}
empAdjustmentsOf(adj, date, empId) ==
    IF date \in DOMAIN adj
    THEN IF empId \in DOMAIN adj[date] THEN adj[date][empId] ELSE EmptyMap
    ELSE EmptyMap

\* the employee's largest count of the day, whatever the item
adjustCountOf_AnyItem(adj, date, empId, itemId) ==
    LET ea == empAdjustmentsOf(adj, date, empId)
    IN IF DOMAIN ea = {} THEN 0
       ELSE CHOOSE m \in { ea[i] : i \in DOMAIN ea } :
                \A i \in DOMAIN ea : ea[i] <= m

\* empAdjustments[itemId] || 0
adjustCountOf(adj, date, empId, itemId) ==
    LET ea == empAdjustmentsOf(adj, date, empId)
    IN IF itemId \in DOMAIN ea THEN ea[itemId] ELSE 0

\* the unit loop one unit too long
IsDeducted_OffByOne(i, adjustCount) == i <= adjustCount

\* the test of the unit loop: unit i (from 0) of an item goes to the company
IsDeducted(i, adjustCount) == i < adjustCount

\* the units of one item: those the loop pushes to snacksToDeduct come first
DeductedOf(items, adjustCount) ==
    SelectSeq([k \in DOMAIN items |-> [unit |-> items[k], i |-> k - 1]],
              LAMBDA u : IsDeducted(u.i, adjustCount))

PayableOf(items, adjustCount) ==
    SelectSeq([k \in DOMAIN items |-> [unit |-> items[k], i |-> k - 1]],
              LAMBDA u : ~IsDeducted(u.i, adjustCount))

Units(us) == [k \in DOMAIN us |-> us[k].unit]

\* one employee on one day: the body of Object.keys(dailySnacksByEmp).forEach
SplitSnacks(dailyLogs, snackItems, adj, date, empId) ==
    LET snacks == SelectSeq(snackItems, LAMBDA c : c.employeeId = empId)
        itemKeys == KeysInOrder([k \in DOMAIN snacks |-> snacks[k].itemId])
        itemsOf(itemId) == SelectSeq(snacks, LAMBDA c : c.itemId = itemId)
        snacksToDeduct == ConcatAll([k \in DOMAIN itemKeys |->
            Units(DeductedOf(itemsOf(itemKeys[k]),
                             adjustCountOf(adj, date, empId, itemKeys[k])))])
        snacksToPay == ConcatAll([k \in DOMAIN itemKeys |->
            Units(PayableOf(itemsOf(itemKeys[k]),
                            adjustCountOf(adj, date, empId, itemKeys[k])))])
    IN [empId |-> empId,
        originalDailySnacks |-> SelectSeq(dailyLogs,
            LAMBDA l : l.itemType = "snack" /\ l.employeeId = empId),
        snacksCount |-> Len(snacks),
        snacksAmount |-> SumPrices(snacks),
        snacksToDeduct |-> snacksToDeduct,
        deductedAmount |-> SumPrices(snacksToDeduct),
        snacksToPay |-> snacksToPay]

\* the row's cost without the snacks moved to the company
totalDailyCostOf_BaseOnly(dailyDrinkCost, dailyManualAddedCost) == dailyDrinkCost

\* totalDailyCost: dailyDrinkCost + dailyManualAddedCost
totalDailyCostOf(dailyDrinkCost, dailyManualAddedCost) ==
    dailyDrinkCost + dailyManualAddedCost

\* one day: the body of sortedDates.forEach, the company row it pushes and
\* what it adds to the aggregate of each employee with a snack that day
DayBill(cons, count, adj, date) ==
    LET dailyLogs == groupedByDate(cons, date)
        expandedLogs == expandConsumptions(dailyLogs)
        drinkItems == SelectSeq(expandedLogs, LAMBDA c : c.itemType = "drink")
        snackItems == SelectSeq(expandedLogs, LAMBDA c : c.itemType = "snack")
        keys == KeysInOrder([k \in DOMAIN snackItems |-> snackItems[k].employeeId])
        perEmp == [k \in DOMAIN keys |->
                      SplitSnacks(dailyLogs, snackItems, adj, date, keys[k])]
        deducted == ConcatAll([k \in DOMAIN perEmp |-> perEmp[k].snacksToDeduct])
        dailyDrinkCost == SumPrices(drinkItems)
        dailyManualAddedCost == SumSeq([k \in DOMAIN perEmp |-> perEmp[k].deductedAmount])
    IN [row |-> [date |-> date,
                 totalStaff |-> count,
                 actualDrinkCount |->
                     Cardinality({ drinkItems[k].employeeId : k \in DOMAIN drinkItems }),
                 manualAddedCount |-> Len(deducted),
                 manualAddedCost |-> dailyManualAddedCost,
                 baseDrinkCost |-> dailyDrinkCost,
                 totalDailyCost |-> totalDailyCostOf(dailyDrinkCost, dailyManualAddedCost),
                 items |-> drinkItems \o deducted],
        perEmp |-> perEmp]

\* the difference without the floor at 0
FinalPayable_NoFloor(originalAmount, deductedAmount) ==
    originalAmount - deductedAmount

\* Math.max(0, agg.originalAmount - agg.deductedAmount)
FinalPayable(originalAmount, deductedAmount) ==
    Max(0, originalAmount - deductedAmount)

\* aggregates whose payableItems keep every snack unit, deducted or not
EmpAggregate_PaysAll(days, empId) ==
    LET mine == SelectSeq(ConcatAll([k \in DOMAIN days |-> days[k].perEmp]),
                          LAMBDA s : s.empId = empId)
    IN [items |-> ConcatAll([k \in DOMAIN mine |-> mine[k].originalDailySnacks]),
        expandedCount |-> SumSeq([k \in DOMAIN mine |-> mine[k].snacksCount]),
        originalAmount |-> SumSeq([k \in DOMAIN mine |-> mine[k].snacksAmount]),
        deductedCount |-> SumSeq([k \in DOMAIN mine |-> Len(mine[k].snacksToDeduct)]),
        deductedAmount |-> SumSeq([k \in DOMAIN mine |-> mine[k].deductedAmount]),
        payableItems |-> ConcatAll([k \in DOMAIN mine |->
                            mine[k].snacksToDeduct \o mine[k].snacksToPay])]

\* empAggregates[empId] after the loop over the sorted days
EmpAggregate(days, empId) ==
    LET mine == SelectSeq(ConcatAll([k \in DOMAIN days |-> days[k].perEmp]),
                          LAMBDA s : s.empId = empId)
    IN [items |-> ConcatAll([k \in DOMAIN mine |-> mine[k].originalDailySnacks]),
        expandedCount |-> SumSeq([k \in DOMAIN mine |-> mine[k].snacksCount]),
        originalAmount |-> SumSeq([k \in DOMAIN mine |-> mine[k].snacksAmount]),
        deductedCount |-> SumSeq([k \in DOMAIN mine |-> Len(mine[k].snacksToDeduct)]),
        deductedAmount |-> SumSeq([k \in DOMAIN mine |-> mine[k].deductedAmount]),
        payableItems |-> ConcatAll([k \in DOMAIN mine |-> mine[k].snacksToPay])]

\* one element of employees.map(...), before the filter
EmployeeBill(days, adj, emp, todayStr) ==
    LET agg == EmpAggregate(days, emp.id)
    IN [employee |-> emp,
        items |-> agg.items,
        originalItemCount |-> agg.expandedCount,
        originalAmount |-> agg.originalAmount,
        payableItems |-> agg.payableItems,
        totalDeductedCount |-> agg.deductedCount,
        totalDeductedAmount |-> agg.deductedAmount,
        finalPayableAmount |-> FinalPayable(agg.originalAmount, agg.deductedAmount),
        todayAdjustmentMap |-> empAdjustmentsOf(adj, todayStr, emp.id),
        finalDeductedCount |-> agg.deductedCount,
        finalDeductedAmount |-> agg.deductedAmount]

\* a bill kept only while something is left to pay
keepsBill_Payable(bill) == bill.finalPayableAmount > 0

\* .filter(bill => bill.originalItemCount > 0)
keepsBill(bill) == bill.originalItemCount > 0

\* BillingService.calculateBilling; todayStr is new Date() read inside the call
calculateBilling(cons, emps, count, adj, todayStr) ==
    LET dates == sortedDates(cons)
        days == [k \in DOMAIN dates |-> DayBill(cons, count, adj, dates[k])]
        companyBillRows == [k \in DOMAIN days |-> days[k].row]
        bills == [k \in DOMAIN emps |-> EmployeeBill(days, adj, emps[k], todayStr)]
    IN [companyBillRows |-> companyBillRows,
        employeeBills |-> SelectSeq(bills, keepsBill),
        totalCompanyBaseAmount |->
            SumSeq([k \in DOMAIN companyBillRows |-> companyBillRows[k].baseDrinkCost]),
        totalManualTransferAmount |->
            SumSeq([k \in DOMAIN days |->
                SumSeq([j \in DOMAIN days[k].perEmp |-> days[k].perEmp[j].deductedAmount])]),
        grandTotalCompanyAmount |->
            SumSeq([k \in DOMAIN companyBillRows |-> companyBillRows[k].totalDailyCost])]

\* StorageService.getActiveEmployeesCount
getActiveEmployeesCount(emps) ==
    Len(SelectSeq(emps, LAMBDA e : e.isActive))

(***************************************************************************)
(* billingService.ts, the flat-count variant: one count per (day,          *)
(* employee), the most expensive units deducted first                      *)
(***************************************************************************)
\* todaysAdjustments[empId] || 0
manualCountOf(adj, date, empId) ==
    IF date \in DOMAIN adj
    THEN IF empId \in DOMAIN adj[date] THEN adj[date][empId] ELSE 0
    ELSE 0

\* the units left in the order they were pushed
sortedSnacksOf_Unsorted(snacks) == snacks

\* [...snacks].sort((a, b) => b.price - a.price): descending by price, units of
\* equal price in their original order
RECURSIVE sortedSnacksOf(_)
sortedSnacksOf(snacks) ==
    IF snacks = <<>> THEN <<>>
    ELSE LET rest == sortedSnacksOf(SubSeq(snacks, 1, Len(snacks) - 1))
             x == snacks[Len(snacks)]
             n == Cardinality({ k \in DOMAIN rest : PriceOf(rest[k]) >= PriceOf(x) })
         IN SubSeq(rest, 1, n) \o <<x>> \o SubSeq(rest, n + 1, Len(rest))

\* the clamp of the count to 0..totalSnacksCount
deductCountOf(manualCount, totalSnacksCount) ==
    IF manualCount < 0 THEN 0
    ELSE IF manualCount > totalSnacksCount THEN totalSnacksCount
    ELSE manualCount

\* one employee on one day: the body of Object.keys(dailySnacksByEmp).forEach
FlatSplit(dailyLogs, snackItems, adj, date, empId) ==
    LET snacks == SelectSeq(snackItems, LAMBDA c : c.employeeId = empId)
        sortedSnacks == sortedSnacksOf(snacks)
        deductCount == deductCountOf(manualCountOf(adj, date, empId), Len(sortedSnacks))
        snacksToDeduct == SubSeq(sortedSnacks, 1, deductCount)
    IN [empId |-> empId,
        originalDailySnacks |-> SelectSeq(dailyLogs,
            LAMBDA l : l.itemType = "snack" /\ l.employeeId = empId),
        totalSnacksCount |-> Len(sortedSnacks),
        snacksAmount |-> SumPrices(snacks),
        deductCount |-> deductCount,
        deductedAmount |-> SumPrices(snacksToDeduct)]

\* one day: the company row pushed and the per-employee deductions
FlatDayBill(cons, count, adj, date) ==
    LET dailyLogs == groupedByDate(cons, date)
        expandedLogs == expandConsumptions(dailyLogs)
        drinkItems == SelectSeq(expandedLogs, LAMBDA c : c.itemType = "drink")
        snackItems == SelectSeq(expandedLogs, LAMBDA c : c.itemType = "snack")
        keys == KeysInOrder([k \in DOMAIN snackItems |-> snackItems[k].employeeId])
        actualDrinkCount ==
            Cardinality({ drinkItems[k].employeeId : k \in DOMAIN drinkItems })
    IN [row |-> [date |-> date,
                 totalStaff |-> count,
                 actualDrinkCount |-> actualDrinkCount,
                 fillers |-> 0,
                 adjustedCount |-> actualDrinkCount,
                 amount |-> SumPrices(drinkItems)],
        perEmp |-> [k \in DOMAIN keys |->
                      FlatSplit(dailyLogs, snackItems, adj, date, keys[k])]]

\* one element of employees.map(...), before the filter
FlatEmployeeBill(days, cons, adj, emp, todayStr) ==
    LET mine == SelectSeq(ConcatAll([k \in DOMAIN days |-> days[k].perEmp]),
                          LAMBDA s : s.empId = emp.id)
        originalAmount == SumSeq([k \in DOMAIN mine |-> mine[k].snacksAmount])
        deductedCount == SumSeq([k \in DOMAIN mine |-> mine[k].deductCount])
        deductedAmount == SumSeq([k \in DOMAIN mine |-> mine[k].deductedAmount])
        todaySnacksExpanded ==
            expandConsumptions(SelectSeq(groupedByDate(cons, todayStr),
                LAMBDA c : c.itemType = "snack" /\ c.employeeId = emp.id))
        todayAdjustment == manualCountOf(adj, todayStr, emp.id)
    IN [employee |-> emp,
        items |-> ConcatAll([k \in DOMAIN mine |-> mine[k].originalDailySnacks]),
        originalItemCount |-> SumSeq([k \in DOMAIN mine |-> mine[k].totalSnacksCount]),
        originalAmount |-> originalAmount,
        totalDeductedCount |-> deductedCount,
        totalDeductedAmount |-> deductedAmount,
        finalPayableAmount |-> Max(0, originalAmount - deductedAmount),
        automatedDeductedCount |-> 0,
        manualAdjustmentCount |-> deductedCount,
        todayAdjustmentCount |-> todayAdjustment,
        todayMaxDeductible |-> Len(todaySnacksExpanded),
        finalDeductedCount |-> deductedCount,
        finalDeductedAmount |-> deductedAmount,
        canIncreaseAdjustment |-> todayAdjustment < Len(todaySnacksExpanded),
        canDecreaseAdjustment |-> todayAdjustment > 0]

\* BillingService.calculateBilling of the flat-count variant
calculateBillingFlat(cons, emps, count, adj, todayStr) ==
    LET dates == sortedDates(cons)
        days == [k \in DOMAIN dates |-> FlatDayBill(cons, count, adj, dates[k])]
        companyBillRows == [k \in DOMAIN days |-> days[k].row]
        bills == [k \in DOMAIN emps |->
                    FlatEmployeeBill(days, cons, adj, emps[k], todayStr)]
        totalCompanyBaseAmount ==
            SumSeq([k \in DOMAIN companyBillRows |-> companyBillRows[k].amount])
        totalManualTransferAmount ==
            SumSeq([k \in DOMAIN days |->
                SumSeq([j \in DOMAIN days[k].perEmp |-> days[k].perEmp[j].deductedAmount])])
    IN [companyBillRows |-> companyBillRows,
        employeeBills |-> SelectSeq(bills, LAMBDA b : b.originalItemCount > 0),
        totalCompanyBaseAmount |-> totalCompanyBaseAmount,
        totalManualTransferAmount |-> totalManualTransferAmount,
        grandTotalCompanyAmount |-> totalCompanyBaseAmount + totalManualTransferAmount]

(***************************************************************************)
(* TallyAutomation.calculationResult (the gap-fill tally of one day)       *)
(***************************************************************************)
TEA_RATE == 10

\* employees.find(e => e.id === id)?.name || 'Unknown'
NameOf(emps, id) ==
    IF \E k \in DOMAIN emps : emps[k].id = id
    THEN emps[CHOOSE k \in DOMAIN emps :
                 emps[k].id = id /\ \A j \in 1..(k - 1) : emps[j].id # id].name
    ELSE "Unknown"

getNames(emps, ids) == [k \in DOMAIN ids |-> NameOf(emps, ids[k])]

tallyDrinkConsumers(cons) ==
    { cons[k].employeeId : k \in { j \in DOMAIN cons : cons[j].itemType = "drink" } }

\* the rows counted instead of the quantities
snackCountOf_Rows(cons, empId) ==
    Len(SelectSeq(cons, LAMBDA c : c.itemType = "snack" /\ c.employeeId = empId))

\* snackCounts[empId]: the quantities of the employee's snack records, summed
snackCountOf(cons, empId) ==
    LET sn == SelectSeq(cons, LAMBDA c : c.itemType = "snack" /\ c.employeeId = empId)
    IN SumSeq([k \in DOMAIN sn |-> QtyOf(sn[k])])

\* Object.entries(snackCounts): the employees with a snack record
snackCountKeys(cons) ==
    LET sn == SelectSeq(cons, LAMBDA c : c.itemType = "snack")
    IN KeysInOrder([k \in DOMAIN sn |-> sn[k].employeeId])

snackOnlyList(cons) ==
    SelectSeq(snackCountKeys(cons), LAMBDA e : e \notin tallyDrinkConsumers(cons))

extraSnackList(cons) ==
    SelectSeq(snackCountKeys(cons), LAMBDA e : snackCountOf(cons, e) > 1)

totalFillersAvailable(cons) == Len(snackOnlyList(cons)) + Len(extraSnackList(cons))

\* every available filler used, whatever the gap
filledAmount_NoMin(initialGap, fillers) == fillers

\* Math.min(initialGap, totalFillersAvailable)
filledAmount(initialGap, fillers) == Min(initialGap, fillers)

calculationResult(date, cons, count, emps) ==
    LET actualTeaCount == Cardinality(tallyDrinkConsumers(cons))
        initialGap == Max(0, count - actualTeaCount)
        filled == filledAmount(initialGap, totalFillersAvailable(cons))
        adjustedTeaCount == actualTeaCount + filled
    IN [date |-> date,
        actualTeaCount |-> actualTeaCount,
        totalEmployees |-> count,
        adjustedTeaCount |-> adjustedTeaCount,
        snackOnlyConsumers |-> getNames(emps, snackOnlyList(cons)),
        extraSnackConsumers |-> getNames(emps, extraSnackList(cons)),
        finalCompanyCost |-> adjustedTeaCount * TEA_RATE,
        gapFilled |-> filled]

(***************************************************************************)
(* State machine: the four arguments of the engine, the clock, the last    *)
(* BillingResult and the last tally                                        *)
(***************************************************************************)
\* the report screen not mounted: no zone offset, no range, nothing grouped
\* the report screen before it mounts.  datePicker tells the screen with the
\* adjustment date picker from the one that adjusts today; rendered is the day
\* the buttons on display were drawn for
NoScreen == [draftAdjustments |-> [k \in {} |-> 0], savingEmpId |-> "",
             adjustmentDate |-> 0, datePicker |-> FALSE, rendered |-> 0]

ReportIdle ==
    /\ tz = 0
    /\ range = [startDate |-> 0, endDate |-> 0]
    /\ dailyGroupedLogs = <<>>
    /\ screen = NoScreen

\* no item cached, no remote call in flight, the entry form empty
\* (editingLogIds null is the empty list; running is the handleSubmit call
\* that is suspended at an await, with the values it closed over)
NoRun == [awaiting |-> "none", editingLogIds |-> <<>>, selection |-> <<>>,
          newEntries |-> <<>>]

NoForm == [recentLog |-> <<>>, editingLogIds |-> <<>>, submitting |-> FALSE,
           deletingId |-> <<>>, running |-> NoRun]

\* the sheet of the store with nothing in it
EmptySheet == [employees |-> <<>>, items |-> <<>>, consumption |-> <<>>,
               dailyAdjustments |-> [k \in {} |-> 0]]

\* the FALLBACK_ arrays hold what the source writes, and the cache does not
\* refer to them; aliased records that cache.employees and cache.items are
\* the FALLBACK_ arrays themselves
LoadIdle ==
    /\ isLoaded = FALSE
    /\ fallback = [employees |-> FALLBACK_EMPLOYEES, items |-> FALLBACK_ITEMS,
                   aliased |-> FALSE]
    /\ remote = EmptySheet
    /\ sessions = <<>>

StoreIdle ==
    /\ cacheItems = <<>>
    /\ fetches = <<>>
    /\ form = NoForm
    /\ LoadIdle

NoTally == [date |-> 0, actualTeaCount |-> 0, totalEmployees |-> 0,
            adjustedTeaCount |-> 0, snackOnlyConsumers |-> <<>>,
            extraSnackConsumers |-> <<>>, finalCompanyCost |-> 0, gapFilled |-> 0]

NoResult == [companyBillRows |-> <<>>, employeeBills |-> <<>>,
             totalCompanyBaseAmount |-> 0, totalManualTransferAmount |-> 0,
             grandTotalCompanyAmount |-> 0]

Bill == calculateBilling(consumptions, employees, activeEmployeeCount,
                         dailyAdjustments, today)

\* the screen has mounted on an input drawn from S and its effect has run
\* generateBill once
InitOn(S) ==
    /\ consumptions \in ConsumptionLists(S, MaxLogs)
    /\ employees \in EmployeeLists
    /\ activeEmployeeCount = getActiveEmployeesCount(employees)
    /\ dailyAdjustments \in AdjTables
    /\ today = 1
    /\ result = Bill
    /\ tally = NoTally
    /\ ReportIdle
    /\ StoreIdle

Init == InitOn(Protos)

\* generateBill: the engine is invoked again on the current arguments
GenerateBill ==
    /\ result' = Bill
    /\ UNCHANGED <<consumptions, employees, activeEmployeeCount,
                   dailyAdjustments, today, tally>>
    /\ UNCHANGED <<reportVars, storeVars>>

\* midnight passes: new Date() now yields the next calendar day
Tick ==
    /\ today < NumDays
    /\ today' = today + 1
    /\ UNCHANGED <<consumptions, employees, activeEmployeeCount,
                   dailyAdjustments, result, tally>>
    /\ UNCHANGED <<reportVars, storeVars>>

AdjEntryCount(adj) ==
    Cardinality({ k \in AdjKeys : k[1] \in DOMAIN adj
                                  /\ k[2] \in DOMAIN adj[k[1]]
                                  /\ k[3] \in DOMAIN adj[k[1]][k[2]] })

\* allAdjustments[d][e][i] = v, creating the missing levels
SetAdjustment(adj, d, e, i, v) ==
    LET day == IF d \in DOMAIN adj THEN adj[d] ELSE EmptyMap
        emp == IF e \in DOMAIN day THEN day[e] ELSE EmptyMap
    IN (d :> ((e :> ((i :> v) @@ emp)) @@ day)) @@ adj

\* the count of one (day, employee, item) of the table goes up by one and the
\* report's effect recomputes the bill from the new table.  The table is the
\* engine's fourth argument and is loaded from the stored sheet as it is, so
\* the entry may be of any day and any consumer, and may pass the units
\* consumed
RaiseAdjustment(d, e, i) ==
    LET cur == adjustCountOf(dailyAdjustments, d, e, i)
    IN /\ cur < MaxAdj
       /\ cur > 0 \/ AdjEntryCount(dailyAdjustments) < MaxAdjEntries
       /\ dailyAdjustments' = SetAdjustment(dailyAdjustments, d, e, i, cur + 1)
       /\ result' = calculateBilling(consumptions, employees, activeEmployeeCount,
                                     dailyAdjustments', today)
       /\ UNCHANGED <<consumptions, employees, activeEmployeeCount, today, tally>>
       /\ UNCHANGED <<reportVars, storeVars>>

Next == \E d \in Days, e \in EmpIds, i \in SnackIds : RaiseAdjustment(d, e, i)

\* the engine re-invoked as its adjustment table changes
Spec == Init /\ [][Next]_vars

NextClock ==
    \/ GenerateBill
    \/ Tick

\* the engine re-invoked on unchanged arguments as the clock advances
SpecClock == Init /\ [][NextClock]_vars

\* crafted records: a snack unit with a negative price, so that the amount
\* deducted can exceed the original amount
CraftedCatalogue == { [itemId |-> "bonda", itemType |-> "snack", price |-> 10],
                      [itemId |-> "vada",  itemType |-> "snack", price |-> 0 - 15] }

CraftedProtos == { <<e, it, d, h, q>> : e \in EmpIds, it \in CraftedCatalogue,
                                       d \in Days, h \in Hours, q \in 1..MaxQty }

InitCrafted == InitOn(CraftedProtos)

SpecCrafted == InitCrafted /\ [][Next]_vars

\* one day's records and a headcount handed to the tally, not yet rendered
TallyProtos == { p \in Protos : p[3] = 1 }

InitTally ==
    /\ consumptions \in ConsumptionLists(TallyProtos, MaxTallyLogs)
    /\ employees \in EmployeeLists
    /\ activeEmployeeCount \in 0..MaxHeadcount
    /\ dailyAdjustments = EmptyMap
    /\ today = 1
    /\ result = NoResult
    /\ tally = NoTally
    /\ ReportIdle
    /\ StoreIdle

\* the component renders: useMemo evaluates calculationResult
RenderTally ==
    /\ tally = NoTally
    /\ tally' = calculationResult(1, consumptions, activeEmployeeCount, employees)
    /\ UNCHANGED <<consumptions, employees, activeEmployeeCount,
                   dailyAdjustments, today, result>>
    /\ UNCHANGED <<reportVars, storeVars>>

NextTally == RenderTally

SpecTally == InitTally /\ [][NextTally]_vars

\* the flat table: date -> employeeId -> count; the report's minus button can
\* take a count below 0
FlatCounts == (0 - 1)..MaxAdj

FlatAdjKeys == Days \X EmpIds

NestFlat(f) ==
    [d \in { k[1] : k \in DOMAIN f } |->
       [e \in { k[2] : k \in { x \in DOMAIN f : x[1] = d } } |-> f[<<d, e>>]]]

FlatAdjTables == { NestFlat(f) : f \in UNION { [K -> FlatCounts] :
                     K \in { S \in SUBSET FlatAdjKeys : Cardinality(S) <= MaxAdjEntries } } }

FlatEntryCount(adj) ==
    Cardinality({ k \in FlatAdjKeys : k[1] \in DOMAIN adj /\ k[2] \in DOMAIN adj[k[1]] })

FlatBill == calculateBillingFlat(consumptions, employees, activeEmployeeCount,
                                 dailyAdjustments, today)

InitFlat ==
    /\ consumptions \in ConsumptionLists(Protos, MaxLogs)
    /\ employees \in EmployeeLists
    /\ activeEmployeeCount = getActiveEmployeesCount(employees)
    /\ dailyAdjustments \in FlatAdjTables
    /\ today = 1
    /\ result = FlatBill
    /\ tally = NoTally
    /\ ReportIdle
    /\ StoreIdle

\* allAdjustments[d][e] = v, creating the missing level
SetFlatAdjustment(adj, d, e, v) ==
    LET day == IF d \in DOMAIN adj THEN adj[d] ELSE EmptyMap
    IN (d :> ((e :> v) @@ day)) @@ adj

\* the count of one (day, employee) goes up or down by one, unclamped, and
\* the report's effect recomputes the bill from the new table
ChangeFlatAdjustment(d, e, delta) ==
    LET newCount == manualCountOf(dailyAdjustments, d, e) + delta
    IN /\ newCount \in FlatCounts
       /\ \/ d \in DOMAIN dailyAdjustments /\ e \in DOMAIN dailyAdjustments[d]
          \/ FlatEntryCount(dailyAdjustments) < MaxAdjEntries
       /\ dailyAdjustments' = SetFlatAdjustment(dailyAdjustments, d, e, newCount)
       /\ result' = calculateBillingFlat(consumptions, employees, activeEmployeeCount,
                                         dailyAdjustments', today)
       /\ UNCHANGED <<consumptions, employees, activeEmployeeCount, today, tally>>
       /\ UNCHANGED <<reportVars, storeVars>>

NextFlat == \E d \in Days, e \in EmpIds, delta \in {0 - 1, 1} :
               ChangeFlatAdjustment(d, e, delta)

SpecFlat == InitFlat /\ [][NextFlat]_vars

(***************************************************************************)
(* The engine called on records as they may arrive: a price that is not a  *)
(* number, no quantity, no date, a consumer missing from the employee list *)
(***************************************************************************)
\* a price field: a number, or anything Number() turns into NaN
RawPrices == { [num |-> TRUE, value |-> 10], [num |-> FALSE, value |-> 0] }

\* a date field: an ISO string, or undefined
RawDates == { [present |-> TRUE, ymd |-> 1, hh |-> 12],
              [present |-> FALSE, ymd |-> 0, hh |-> 0] }

\* quantity 0 stands for a record without the field
RawQuantities == {0, MaxQty}

RawItems == { [itemId |-> "tea", itemType |-> "drink"],
              [itemId |-> "bonda", itemType |-> "snack"] }

RawProtos == { <<e, it, p, d, q>> : e \in EmpIds, it \in RawItems, p \in RawPrices,
                                   d \in RawDates, q \in RawQuantities }

RawLists == { [k \in 1..Len(ps) |->
                 [id |-> k, employeeId |-> ps[k][1], itemId |-> ps[k][2].itemId,
                  itemType |-> ps[k][2].itemType, price |-> ps[k][3],
                  date |-> ps[k][4], quantity |-> ps[k][5]]] :
              ps \in SeqsUpTo(RawProtos, MaxLogs) }

\* entries naming a day without records, an employee and an item nobody has
RawAdjKeys == {1, NumDays + 1} \X {"e1", "nobody"} \X {"bonda", "nosuch"}

RawAdjTables == { Nest(f) : f \in UNION { [K -> {1}] :
                    K \in { S \in SUBSET RawAdjKeys : Cardinality(S) <= MaxAdjEntries } } }

\* Number(x.price) || 0
NumberOr0(price) == IF price.num THEN price.value ELSE 0

\* c.date.split('T'): a TypeError when c.date is undefined
splitThrows(c) == ~c.date.present

TypeError == [threw |-> "TypeError"]

\* the record as the arithmetic of the engine sees it
Coerced(cons) ==
    [k \in DOMAIN cons |->
        [id |-> cons[k].id, employeeId |-> cons[k].employeeId,
         itemId |-> cons[k].itemId, itemType |-> cons[k].itemType,
         price |-> NumberOr0(cons[k].price),
         date |-> [ymd |-> cons[k].date.ymd, hh |-> cons[k].date.hh],
         quantity |-> cons[k].quantity]]

\* calculateBilling on such records: the grouping loop runs first and throws
\* on the first record without a date
calculateBillingRaw(cons, emps, count, adj, todayStr) ==
    IF \E k \in DOMAIN cons : splitThrows(cons[k])
    THEN TypeError
    ELSE calculateBilling(Coerced(cons), emps, count, adj, todayStr)

\* expandConsumptions writing the quantity it used back into the record
logAfterExpand_Normalised(log) == [log EXCEPT !.quantity = QtyOf(log)]

\* a record after expandConsumptions has read it: the loop pushes { ...log },
\* a copy, and assigns nothing to log
logAfterExpand(log) == log

\* the consumption list after the call: the records are grouped by reference
\* and expanded day by day, unless the grouping loop threw
consumptionsAfter(cons) ==
    IF \E k \in DOMAIN cons : splitThrows(cons[k])
    THEN cons
    ELSE [k \in DOMAIN cons |-> logAfterExpand(cons[k])]

InitRaw ==
    /\ consumptions \in RawLists
    /\ employees \in EmployeeLists
    /\ activeEmployeeCount = getActiveEmployeesCount(employees)
    /\ dailyAdjustments \in RawAdjTables
    /\ today = 1
    /\ result = NoResult
    /\ tally = NoTally
    /\ ReportIdle
    /\ StoreIdle

\* one call of the engine: its result, and its arguments as the call leaves
\* them (the employee list and the table are only read; '|| {}' makes a new
\* object and stores it nowhere)
CallEngine ==
    /\ result' = calculateBillingRaw(consumptions, employees, activeEmployeeCount,
                                     dailyAdjustments, today)
    /\ consumptions' = consumptionsAfter(consumptions)
    /\ employees' = employees
    /\ dailyAdjustments' = dailyAdjustments
    /\ UNCHANGED <<activeEmployeeCount, today, tally>>
    /\ UNCHANGED <<reportVars, storeVars>>

NextRaw == CallEngine

SpecRaw == InitRaw /\ [][NextRaw]_vars

(***************************************************************************)
(* The report screen: the range filter and the grouping by local day, then *)
(* the engine on the filtered list                                         *)
(***************************************************************************)
\* Date.getTimezoneOffset() of the browser, in hours: UTC+5, UTC, UTC-5
TzOffsets == {0 - 5, 0, 5}

\* hours of the day (UTC) at which records are stamped
ZoneHours == {2, 21}

\* getLocalYMD: the instant shifted by the zone offset, then the day of its
\* ISO text
getLocalYMD(date, offset) ==
    LET h == date.hh - offset
    IN IF h < 0 THEN date.ymd - 1
       ELSE IF h >= 24 THEN date.ymd + 1
       ELSE date.ymd

ZoneProtos == { <<e, it, d, h, 1>> : e \in EmpIds, it \in Catalogue,
                                    d \in Days, h \in ZoneHours }

\* the week shown, or its last day alone
Ranges == { [startDate |-> 1, endDate |-> NumDays],
            [startDate |-> NumDays, endDate |-> NumDays] }

inRange(c, offset, rng) ==
    /\ getLocalYMD(c.date, offset) >= rng.startDate
    /\ getLocalYMD(c.date, offset) <= rng.endDate

\* grouped: the filtered records under their local day, days in the order of
\* their first record
groupedLogs(filtered, offset) ==
    LET keys == KeysInOrder([k \in DOMAIN filtered |->
                                getLocalYMD(filtered[k].date, offset)])
    IN [k \in DOMAIN keys |->
          [date |-> keys[k],
           logs |-> SelectSeq(filtered,
                       LAMBDA c : getLocalYMD(c.date, offset) = keys[k])]]

InitReport ==
    /\ consumptions \in ConsumptionLists(ZoneProtos, MaxLogs)
    /\ employees \in EmployeeLists
    /\ activeEmployeeCount = getActiveEmployeesCount(employees)
    /\ dailyAdjustments = EmptyMap
    /\ today = 1
    /\ result = NoResult
    /\ tally = NoTally
    /\ tz \in TzOffsets
    /\ range \in Ranges
    /\ dailyGroupedLogs = <<>>
    /\ screen = NoScreen
    /\ StoreIdle

\* calculateReport: filter by local day, group for display, bill the filtered
\* list
calculateReport ==
    LET filteredConsumptions ==
            SelectSeq(consumptions, LAMBDA c : inRange(c, tz, range))
    IN /\ dailyGroupedLogs' = groupedLogs(filteredConsumptions, tz)
       /\ result' = calculateBilling(filteredConsumptions, employees,
                                     activeEmployeeCount, dailyAdjustments, today)
       /\ UNCHANGED <<consumptions, employees, activeEmployeeCount,
                      dailyAdjustments, today, tally, tz, range, screen, storeVars>>

NextReport == calculateReport

SpecReport == InitReport /\ [][NextReport]_vars

(***************************************************************************)
(* Quantities the properties are stated in                                 *)
(***************************************************************************)
\* BillGenerator: totalEmployeeAmount, the sum of row.finalPayableAmount || 0
totalEmployeeAmount(bills) ==
    SumSeq([k \in DOMAIN bills |-> bills[k].finalPayableAmount])

\* sum of price x quantity over the records passed in
TotalConsumed ==
    SumSeq([k \in DOMAIN consumptions |->
              consumptions[k].price * consumptions[k].quantity])

ListedIds == { employees[k].id : k \in DOMAIN employees }

CountIn(items, Test(_)) == Cardinality({ k \in DOMAIN items : Test(items[k]) })

RowsOf(res, d) == { k \in DOMAIN res.companyBillRows : res.companyBillRows[k].date = d }

BillsOf(res, e) == { k \in DOMAIN res.employeeBills : res.employeeBills[k].employee.id = e }

\* snack units of (day, employee, item) on the company ledger
MovedIn(res, d, e, i) ==
    SumSeq([k \in DOMAIN res.companyBillRows |->
        IF res.companyBillRows[k].date = d
        THEN CountIn(res.companyBillRows[k].items,
                 LAMBDA u : u.itemType = "snack" /\ u.employeeId = e /\ u.itemId = i)
        ELSE 0])

MovedUnits(d, e, i) == MovedIn(result, d, e, i)

\* snack units of item i the employee consumed that day
ConsumedUnits(d, e, i) ==
    SumSeq([k \in DOMAIN consumptions |->
        IF /\ consumptions[k].date.ymd = d /\ consumptions[k].employeeId = e
           /\ consumptions[k].itemId = i /\ consumptions[k].itemType = "snack"
        THEN consumptions[k].quantity ELSE 0])

Requested(d, e, i) == adjustCountOf(dailyAdjustments, d, e, i)

\* copies of record r among the items of all company rows / of all bills
OnCompany(r) ==
    SumSeq([k \in DOMAIN result.companyBillRows |->
        CountIn(result.companyBillRows[k].items, LAMBDA u : u.id = r.id)])

OnEmployee(r) ==
    SumSeq([k \in DOMAIN result.employeeBills |->
        CountIn(result.employeeBills[k].payableItems, LAMBDA u : u.id = r.id)])

(***************************************************************************)
(* Properties                                                              *)
(***************************************************************************)
\* C1: the company grand total plus the sum of finalPayableAmount over the
\* employee bills equals the sum of price x quantity over all records.
C1_Conservation ==
    result.grandTotalCompanyAmount + totalEmployeeAmount(result.employeeBills)
        = TotalConsumed

\* C2: for every day, employee and snack item the units moved to the company
\* ledger are at least 0 and at most min(requested, consumed), and a request
\* above the units consumed moves exactly the units consumed.
C2_Clamp ==
    \A d \in Days, e \in EmpIds, i \in SnackIds :
        /\ MovedUnits(d, e, i) >= 0
        /\ MovedUnits(d, e, i) <= Min(Requested(d, e, i), ConsumedUnits(d, e, i))
        /\ Requested(d, e, i) > ConsumedUnits(d, e, i)
              => MovedUnits(d, e, i) = ConsumedUnits(d, e, i)

\* a request larger than the (at least two) units consumed, all of them moved
C2_Witness ==
    \E d \in Days, e \in EmpIds, i \in SnackIds :
        /\ ConsumedUnits(d, e, i) >= 2
        /\ Requested(d, e, i) > ConsumedUnits(d, e, i)
        /\ MovedUnits(d, e, i) = ConsumedUnits(d, e, i)

\* C3: a call of calculateBilling on unchanged arguments returns the result
\* the previous call returned, whenever it is made.
C3_Determinism ==
    [][ (<<consumptions, employees, activeEmployeeCount, dailyAdjustments>>'
            = <<consumptions, employees, activeEmployeeCount, dailyAdjustments>>)
        => result' = result ]_vars

\* C4: every consumed unit is on exactly one ledger, the company row of its
\* day or the payableItems of its employee's bill; drink units are on the
\* company side.
C4_Partition ==
    \A k \in DOMAIN consumptions :
        LET r == consumptions[k]
        IN /\ OnCompany(r) + OnEmployee(r) = r.quantity
           /\ \A j \in DOMAIN result.companyBillRows :
                 CountIn(result.companyBillRows[j].items, LAMBDA u : u.id = r.id) > 0
                    => result.companyBillRows[j].date = r.date.ymd
           /\ \A j \in DOMAIN result.employeeBills :
                 CountIn(result.employeeBills[j].payableItems, LAMBDA u : u.id = r.id) > 0
                    => result.employeeBills[j].employee.id = r.employeeId
           /\ r.itemType = "drink" => OnCompany(r) = r.quantity

\* C5: every employee bill has finalPayableAmount >= 0, also when the
\* deducted amount exceeds the original amount.
C5_NonNegative ==
    \A k \in DOMAIN result.employeeBills :
        result.employeeBills[k].finalPayableAmount >= 0

\* a bill whose deducted amount exceeds its original amount
C5_Witness ==
    \E k \in DOMAIN result.employeeBills :
        /\ result.employeeBills[k].totalDeductedAmount > 0
        /\ result.employeeBills[k].totalDeductedAmount
              > result.employeeBills[k].originalAmount
        /\ result.employeeBills[k].finalPayableAmount = 0

\* tally quantities, stated on the day's records
DrinkConsumers ==
    { e \in EmpIds : \E k \in DOMAIN consumptions :
          consumptions[k].itemType = "drink" /\ consumptions[k].employeeId = e }

SnackUnitsOf(e) ==
    SumSeq([k \in DOMAIN consumptions |->
        IF consumptions[k].itemType = "snack" /\ consumptions[k].employeeId = e
        THEN consumptions[k].quantity ELSE 0])

SnackOnly == { e \in EmpIds : SnackUnitsOf(e) >= 1 /\ e \notin DrinkConsumers }

ExtraSnack == { e \in EmpIds : SnackUnitsOf(e) > 1 }

FillerPool == SnackOnly \cup ExtraSnack

DisplayName(e) == IF e \in ListedIds THEN NameTable[e] ELSE "Unknown"

Rendered == tally # NoTally

\* C6: the tally's adjustedTeaCount is at most the active headcount and at
\* least actualTeaCount.
C6_GapBound ==
    Rendered => /\ tally.adjustedTeaCount <= activeEmployeeCount
                /\ tally.adjustedTeaCount >= tally.actualTeaCount

\* C6 (amended): adjustedTeaCount is at least actualTeaCount and at most the
\* larger of the active headcount and actualTeaCount, so filling never takes
\* it past the headcount.
C6_GapBoundAmended ==
    Rendered => /\ tally.adjustedTeaCount >= tally.actualTeaCount
                /\ tally.adjustedTeaCount <= Max(activeEmployeeCount, tally.actualTeaCount)

\* more fillers than the gap needs: the count is filled up to the headcount
C6_Witness ==
    /\ Rendered
    /\ tally.gapFilled > 0
    /\ Cardinality(FillerPool) > tally.gapFilled
    /\ tally.adjustedTeaCount = activeEmployeeCount

\* C7: the fillers available to the tally are the distinct employees that are
\* snack-only or extra-snack, so gapFilled never exceeds their number.
C7_FillerUnion ==
    Rendered => /\ totalFillersAvailable(consumptions) = Cardinality(FillerPool)
                /\ tally.gapFilled <= Cardinality(FillerPool)

RowCosts(res, d) == { res.companyBillRows[k].totalDailyCost : k \in RowsOf(res, d) }

Finals(res, e) == { res.employeeBills[k].finalPayableAmount : k \in BillsOf(res, e) }

UnitPrices(d, e, i) ==
    { consumptions[k].price : k \in { j \in DOMAIN consumptions :
          /\ consumptions[j].date.ymd = d /\ consumptions[j].employeeId = e
          /\ consumptions[j].itemId = i /\ consumptions[j].itemType = "snack" } }

ExactTransfer(d, e, i) ==
    \E p \in UnitPrices(d, e, i) :
        /\ RowCosts(result, d) # {}
        /\ RowCosts(result', d) = { c + p : c \in RowCosts(result, d) }
        /\ Finals(result, e) # {}
        /\ Finals(result', e) = { f - p : f \in Finals(result, e) }
        /\ \A d2 \in Days \ {d} :
              { result'.companyBillRows[k] : k \in RowsOf(result', d2) }
                 = { result.companyBillRows[k] : k \in RowsOf(result, d2) }
        /\ \A e2 \in EmpIds \ {e} :
              { result'.employeeBills[k] : k \in BillsOf(result', e2) }
                 = { result.employeeBills[k] : k \in BillsOf(result, e2) }

\* C8: raising the count of one (day, employee, item) by one, while fewer
\* than all consumed units of the item are moved, raises that day's company
\* cost and lowers that employee's finalPayableAmount by the price of one
\* consumed unit of the item, and changes no other row and no other bill.
C8_ExactTransfer ==
    [][ \A d \in Days, e \in EmpIds, i \in SnackIds :
          (RaiseAdjustment(d, e, i) /\ MovedUnits(d, e, i) < ConsumedUnits(d, e, i))
             => ExactTransfer(d, e, i) ]_vars

DayDrinkCost(d) ==
    SumSeq([k \in DOMAIN consumptions |->
        IF consumptions[k].date.ymd = d /\ consumptions[k].itemType = "drink"
        THEN consumptions[k].price * consumptions[k].quantity ELSE 0])

DayDrinkers(d) ==
    { consumptions[k].employeeId : k \in { j \in DOMAIN consumptions :
          consumptions[j].date.ymd = d /\ consumptions[j].itemType = "drink" } }

SnackAmountOf(e) ==
    SumSeq([k \in DOMAIN consumptions |->
        IF consumptions[k].itemType = "snack" /\ consumptions[k].employeeId = e
        THEN consumptions[k].price * consumptions[k].quantity ELSE 0])

\* C9: with an empty adjustment table each day's company cost is the summed
\* price of the day's drink units with actualDrinkCount the distinct drink
\* consumers, no snack unit is on the company ledger, and each employee's
\* finalPayableAmount equals originalAmount, the sum of price x quantity of
\* their snack records.
C9_Baseline ==
    dailyAdjustments = EmptyMap =>
        /\ \A d \in { consumptions[k].date.ymd : k \in DOMAIN consumptions } :
              Cardinality(RowsOf(result, d)) = 1
        /\ \A k \in DOMAIN result.companyBillRows :
              LET row == result.companyBillRows[k]
              IN /\ row.totalDailyCost = DayDrinkCost(row.date)
                 /\ row.actualDrinkCount = Cardinality(DayDrinkers(row.date))
                 /\ CountIn(row.items, LAMBDA u : u.itemType = "snack") = 0
        /\ \A e \in ListedIds :
              SnackUnitsOf(e) > 0 => Cardinality(BillsOf(result, e)) = 1
        /\ \A k \in DOMAIN result.employeeBills :
              LET bill == result.employeeBills[k]
              IN /\ bill.finalPayableAmount = bill.originalAmount
                 /\ bill.originalAmount = SnackAmountOf(bill.employee.id)

\* no adjustment, one employee with a two-unit drink record and a two-unit
\* snack record
C9_Witness ==
    /\ dailyAdjustments = EmptyMap
    /\ \E k \in DOMAIN result.companyBillRows :
          /\ result.companyBillRows[k].actualDrinkCount = 1
          /\ result.companyBillRows[k].totalDailyCost = 20
    /\ \E k \in DOMAIN result.employeeBills :
          /\ result.employeeBills[k].originalItemCount = 2
          /\ result.employeeBills[k].finalPayableAmount >= 20

\* C10: the tally returns actualTeaCount = the distinct employees with a
\* drink record, snack-only = employees with a snack unit and no drink,
\* extra-snack = employees whose snack quantities sum to more than 1,
\* gapFilled = min(max(0, headcount - actualTeaCount), available fillers) with
\* the available fillers the two counts added, adjustedTeaCount =
\* actualTeaCount + gapFilled and the cost adjustedTeaCount x 10.
C10_TallyDefinition ==
    Rendered =>
        /\ tally.actualTeaCount = Cardinality(DrinkConsumers)
        /\ Len(tally.snackOnlyConsumers) = Cardinality(SnackOnly)
        /\ Range(tally.snackOnlyConsumers) = { DisplayName(e) : e \in SnackOnly }
        /\ Len(tally.extraSnackConsumers) = Cardinality(ExtraSnack)
        /\ Range(tally.extraSnackConsumers) = { DisplayName(e) : e \in ExtraSnack }
        /\ tally.gapFilled =
              Min(Max(0, activeEmployeeCount - tally.actualTeaCount),
                  Cardinality(SnackOnly) + Cardinality(ExtraSnack))
        /\ tally.adjustedTeaCount = tally.actualTeaCount + tally.gapFilled
        /\ tally.finalCompanyCost = tally.adjustedTeaCount * 10

\* a rendered tally with a drink consumer, a snack-only and an extra-snack
\* consumer and a gap that is filled
C10_Witness ==
    /\ Rendered
    /\ tally.actualTeaCount > 0
    /\ tally.snackOnlyConsumers # <<>>
    /\ tally.extraSnackConsumers # <<>>
    /\ tally.gapFilled > 0

\* the unit prices of the employee's snacks of a day, in list order
DayUnitPrices(d, e) ==
    LET sn == SelectSeq(consumptions, LAMBDA c :
                  c.date.ymd = d /\ c.employeeId = e /\ c.itemType = "snack")
    IN ConcatAll([k \in DOMAIN sn |-> [j \in 1..sn[k].quantity |-> sn[k].price]])

\* the flat count of (day, employee) after clamping to 0..units
ClampedCount(d, e) ==
    Max(0, Min(manualCountOf(dailyAdjustments, d, e), Len(DayUnitPrices(d, e))))

\* the largest total any choice of k of the units has
BestK(ps, k) ==
    LET sums == { SumSeq([j \in DOMAIN ps |-> IF j \in S THEN ps[j] ELSE 0]) :
                    S \in { T \in SUBSET DOMAIN ps : Cardinality(T) = k } }
    IN CHOOSE m \in sums : \A x \in sums : x <= m

\* the sum of the values of a function with a finite domain
RECURSIVE SumFun(_)
SumFun(f) ==
    IF DOMAIN f = {} THEN 0
    ELSE LET x == CHOOSE y \in DOMAIN f : TRUE
         IN f[x] + SumFun([z \in DOMAIN f \ {x} |-> f[z]])

BestOf(d, e) == BestK(DayUnitPrices(d, e), ClampedCount(d, e))

\* C11: in the flat-count variant the amount deducted for the k units of an
\* employee's day (k the clamped count) is the largest total any k of that
\* day's units have, so the amounts moved to the company, each bill's deducted
\* amount and payable amount are those of the k most expensive units.
C11_MostExpensiveFirst ==
    /\ result.totalManualTransferAmount =
          SumSeq([d \in 1..NumDays |-> SumFun([e \in EmpIds |-> BestOf(d, e)])])
    /\ \A k \in DOMAIN result.employeeBills :
          LET bill == result.employeeBills[k]
              best == SumSeq([d \in 1..NumDays |-> BestOf(d, bill.employee.id)])
          IN /\ bill.totalDeductedAmount = best
             /\ bill.totalDeductedCount =
                   SumSeq([d \in 1..NumDays |-> ClampedCount(d, bill.employee.id)])
             /\ bill.finalPayableAmount = bill.originalAmount - best

\* a cheaper unit logged before a dearer one, some but not all of the day's
\* units moved, and the dearer one is among the deducted
C11_Witness ==
    \E d \in Days, k \in DOMAIN result.employeeBills :
        LET bill == result.employeeBills[k]
            ps == DayUnitPrices(d, bill.employee.id)
        IN /\ Len(ps) >= 2
           /\ ps[1] < ps[Len(ps)]
           /\ ClampedCount(d, bill.employee.id) \in 1..(Len(ps) - 1)
           /\ bill.totalDeductedAmount >= ps[Len(ps)]
           /\ bill.totalDeductedAmount < bill.originalAmount

Called == result # NoResult

\* C12: calculateBilling returns a BillingResult and raises no error, whatever
\* the records, the employee list and the adjustment table, records without
\* a date, a quantity or a numeric price included.
C12_NeverFails == Called => result # TypeError

\* C15: a call of calculateBilling leaves the consumption list and its
\* records, the employee list and the adjustment table as they were.
C15_Purity ==
    [][ CallEngine => /\ consumptions' = consumptions
                      /\ employees' = employees
                      /\ dailyAdjustments' = dailyAdjustments ]_vars

\* a call that returned a bill counting a snack record without a quantity as
\* one unit, with an entry of the table applied
C15_Witness ==
    /\ Called
    /\ result # TypeError
    /\ \E k \in DOMAIN consumptions :
          consumptions[k].quantity = 0 /\ consumptions[k].itemType = "snack"
    /\ \E k \in DOMAIN result.employeeBills :
          /\ result.employeeBills[k].originalItemCount = 1
          /\ result.employeeBills[k].totalDeductedCount = 1

\* C13: the employee bills are, in the order of the employee list, exactly the
\* employees of the list with at least one snack unit among the records; an
\* employee with drinks only or nothing has no bill, one whose snacks were all
\* moved to the company has.
C13_OmitsEmptyBills ==
    [k \in DOMAIN result.employeeBills |-> result.employeeBills[k].employee]
        = SelectSeq(employees, LAMBDA e : SnackUnitsOf(e.id) > 0)

\* a listed employee with drinks only and no bill, and a bill whose snack
\* units were all moved to the company
C13_Witness ==
    /\ \E e \in ListedIds : e \in DrinkConsumers /\ BillsOf(result, e) = {}
    /\ \E k \in DOMAIN result.employeeBills :
          /\ result.employeeBills[k].totalDeductedCount
                = result.employeeBills[k].originalItemCount
          /\ result.employeeBills[k].finalPayableAmount = 0

\* C14: every record the report shows is grouped by calculateBilling under
\* the day the screen filters and displays it under, so the company rows are
\* the rows of the displayed days.
C14_SameDay ==
    /\ \A g \in DOMAIN dailyGroupedLogs :
          \A k \in DOMAIN dailyGroupedLogs[g].logs :
              DateKey(dailyGroupedLogs[g].logs[k]) = dailyGroupedLogs[g].date
    /\ { result.companyBillRows[k].date : k \in DOMAIN result.companyBillRows }
          = { dailyGroupedLogs[g].date : g \in DOMAIN dailyGroupedLogs }

\* the summed price of the snack units among the items of a company row
MovedCost(row) ==
    SumSeq([k \in DOMAIN row.items |->
        IF row.items[k].itemType = "snack" THEN row.items[k].price ELSE 0])

\* C16: grandTotalCompanyAmount is the sum of the rows' daily costs, each row's
\* daily cost is its base drink cost plus the cost of the snack units moved to
\* the company that day, and grandTotalCompanyAmount = totalCompanyBaseAmount
\* + totalManualTransferAmount.
C16_CompanyTotals ==
    /\ result.grandTotalCompanyAmount =
          SumSeq([k \in DOMAIN result.companyBillRows |->
                     result.companyBillRows[k].totalDailyCost])
    /\ \A k \in DOMAIN result.companyBillRows :
          LET row == result.companyBillRows[k]
          IN /\ row.baseDrinkCost = DayDrinkCost(row.date)
             /\ row.manualAddedCost = MovedCost(row)
             /\ row.totalDailyCost = row.baseDrinkCost + MovedCost(row)
    /\ result.grandTotalCompanyAmount =
          result.totalCompanyBaseAmount + result.totalManualTransferAmount

\* two rows, drinks on the company and a snack moved to it
C16_Witness ==
    /\ Len(result.companyBillRows) = 2
    /\ result.totalCompanyBaseAmount > 0
    /\ result.totalManualTransferAmount > 0
    /\ result.grandTotalCompanyAmount
          = result.totalCompanyBaseAmount + result.totalManualTransferAmount

\* the list with every record of quantity N replaced, in place, by N records
\* of quantity 1 with the same employee, item, type, price and date
Unrolled(cons) ==
    ConcatAll([k \in DOMAIN cons |->
        [j \in 1..cons[k].quantity |->
            [cons[k] EXCEPT !.quantity = 1, !.id = (k - 1) * MaxQty + j]]])

\* the counts and the amounts of a BillingResult
Amounts(res) ==
    [rows |-> [k \in DOMAIN res.companyBillRows |->
                 LET row == res.companyBillRows[k]
                 IN <<row.date, row.totalStaff, row.actualDrinkCount,
                      row.manualAddedCount, row.manualAddedCost, row.baseDrinkCost,
                      row.totalDailyCost, Len(row.items)>>],
     bills |-> [k \in DOMAIN res.employeeBills |->
                 LET bill == res.employeeBills[k]
                 IN <<bill.employee, bill.originalItemCount, bill.originalAmount,
                      bill.totalDeductedCount, bill.totalDeductedAmount,
                      bill.finalPayableAmount, Len(bill.payableItems),
                      bill.finalDeductedCount, bill.finalDeductedAmount>>],
     totals |-> <<res.totalCompanyBaseAmount, res.totalManualTransferAmount,
                  res.grandTotalCompanyAmount>>]

\* C17: replacing the records of quantity N by N records of quantity 1 changes
\* no count and no amount of the BillingResult, and every snack record,
\* whatever its quantity, is listed once in the items of its employee's bill.
C17_QuantityIsRepetition ==
    /\ Amounts(result) =
          Amounts(calculateBilling(Unrolled(consumptions), employees,
                                   activeEmployeeCount, dailyAdjustments, today))
    /\ \A k \in DOMAIN result.employeeBills :
          LET bill == result.employeeBills[k]
          IN \A j \in DOMAIN consumptions :
                (consumptions[j].itemType = "snack"
                   /\ consumptions[j].employeeId = bill.employee.id)
                => CountIn(bill.items, LAMBDA u : u.id = consumptions[j].id) = 1

\* a snack record of quantity 2, one of its units moved to the company: two
\* units counted, one record listed
C17_Witness ==
    \E k \in DOMAIN result.employeeBills :
        LET bill == result.employeeBills[k]
        IN /\ Len(bill.items) = 1
           /\ bill.items[1].quantity = 2
           /\ bill.originalItemCount = 2
           /\ bill.totalDeductedCount = 1
           /\ Len(bill.payableItems) = 1

\* the (day, employee, item) entries the table holds
Entries(adj) ==
    { k \in AdjKeys : /\ k[1] \in DOMAIN adj
                      /\ k[2] \in DOMAIN adj[k[1]]
                      /\ k[3] \in DOMAIN adj[k[1]][k[2]] }

\* the table without one entry, and the table with a 0 wherever it has none
Without(adj, key) ==
    Nest([k \in Entries(adj) \ {key} |-> adjustCountOf(adj, k[1], k[2], k[3])])

ZeroFilled(adj) ==
    Nest([k \in AdjKeys |-> adjustCountOf(adj, k[1], k[2], k[3])])

BillWith(adj) ==
    calculateBilling(consumptions, employees, activeEmployeeCount, adj, today)

\* a BillingResult without the bills' todayAdjustmentMap, the copy of today's
\* entries kept for the report's buttons
Ledger(res) ==
    [res EXCEPT !.employeeBills =
        [k \in DOMAIN res.employeeBills |->
            [f \in DOMAIN res.employeeBills[k] \ {"todayAdjustmentMap"} |->
                res.employeeBills[k][f]]]]

\* rows of the other days and bills of the other employees, as sets
OtherRows(res, d) ==
    { res.companyBillRows[k] : k \in { j \in DOMAIN res.companyBillRows :
                                         res.companyBillRows[j].date # d } }

OtherBills(res, e) ==
    { res.employeeBills[k] : k \in { j \in DOMAIN res.employeeBills :
                                       res.employeeBills[j].employee.id # e } }

\* C18: an entry of the table changes nothing but the row of its day and the
\* bill of its employee; an entry for a day without records, for an employee
\* without a snack that day or for an item the employee did not have that day
\* leaves the BillingResult as it is without the entry; a table with a 0
\* wherever an entry is missing gives the same ledgers.
C18_LocalAdjustments ==
    /\ \A key \in Entries(dailyAdjustments) :
          LET base == BillWith(Without(dailyAdjustments, key))
          IN /\ OtherRows(result, key[1]) = OtherRows(base, key[1])
             /\ OtherBills(result, key[2]) = OtherBills(base, key[2])
             /\ ConsumedUnits(key[1], key[2], key[3]) = 0 => result = base
    /\ Ledger(result) = Ledger(BillWith(ZeroFilled(dailyAdjustments)))

\* C18 (amended): as C18, but an entry that names nothing consumed leaves the
\* rows, the totals and every count, amount and item list of the bills
\* unchanged; the todayAdjustmentMap of a bill may show it.
C18_LocalAdjustmentsAmended ==
    /\ \A key \in Entries(dailyAdjustments) :
          LET base == BillWith(Without(dailyAdjustments, key))
          IN /\ OtherRows(result, key[1]) = OtherRows(base, key[1])
             /\ OtherBills(result, key[2]) = OtherBills(base, key[2])
             /\ ConsumedUnits(key[1], key[2], key[3]) = 0
                   => Ledger(result) = Ledger(base)
    /\ Ledger(result) = Ledger(BillWith(ZeroFilled(dailyAdjustments)))

\* an entry for an item its employee did not have that day, the employee
\* billed for another snack: the ledgers are those of the table without it
C18_Witness ==
    \E key \in Entries(dailyAdjustments) :
        /\ ConsumedUnits(key[1], key[2], key[3]) = 0
        /\ BillsOf(result, key[2]) # {}
        /\ \E i \in SnackIds : ConsumedUnits(key[1], key[2], i) > 0
        /\ Ledger(result) = Ledger(BillWith(Without(dailyAdjustments, key)))

(***************************************************************************)
(* storageService.ts: the in-memory cache and its mutations.  Each         *)
(* mutation changes the cache in the invoking step and then awaits a       *)
(* fetch; nothing in the service catches a rejection or restores the       *)
(* cache.  API_URL is configured, so the early return is never taken.      *)
(***************************************************************************)
MaxFetches == 3
MaxCached == 2

Item(id, price) ==
    [id |-> id, name |-> id, price |-> price, type |-> "drink", isActive |-> TRUE]

StoreEntries ==
    { Consumption(n, "e1", it, 1, 12, 1) :
        n \in 1..2, it \in { c \in Catalogue : c.itemId \in {"tea", "bonda"} } }

StoreBatches == { <<a>> : a \in StoreEntries }
                   \cup { <<a, b>> : a \in StoreEntries, b \in StoreEntries }

StoreIds == { c.id : c \in StoreEntries }

StoreIdLists == { <<1>>, <<2>>, <<1, 2>> }

StoreEmployees == { Employee("e1", TRUE), Employee("e1", FALSE), Employee("e2", TRUE) }

StoreItems == { Item("tea", 10), Item("tea", 12), Item("milk", 10) }

StoreTables == { EmptyMap,
                 Nest(<<1, "e1", "bonda">> :> 1),
                 Nest(<<1, "e1", "bonda">> :> 2) }

\* the cache object
Cache ==
    [employees |-> employees, items |-> cacheItems,
     consumption |-> consumptions, dailyAdjustments |-> dailyAdjustments]

\* getEmployees, getItems, getConsumptions, getDailyAdjustments,
\* getActiveEmployeesCount
Getters ==
    [getEmployees |-> employees, getItems |-> cacheItems,
     getConsumptions |-> consumptions, getDailyAdjustments |-> dailyAdjustments,
     getActiveEmployeesCount |-> getActiveEmployeesCount(employees)]

\* cache.consumption.filter(c => !idSet.has(c.id))
withoutIds(list, ids) == SelectSeq(list, LAMBDA c : c.id \notin ids)

\* a save that takes an inactive record off the list instead of keeping it
upsert_DropsInactive(list, rec) ==
    IF rec.isActive
    THEN IF \E k \in 1..Len(list) : list[k].id = rec.id
         THEN [k \in 1..Len(list) |-> IF list[k].id = rec.id THEN rec ELSE list[k]]
         ELSE Append(list, rec)
    ELSE SelectSeq(list, LAMBDA e : e.id # rec.id)

\* findIndex by id, then replace in place or push
upsert(list, rec) ==
    IF \E k \in 1..Len(list) : list[k].id = rec.id
    THEN LET idx == CHOOSE k \in 1..Len(list) :
                        /\ list[k].id = rec.id
                        /\ \A j \in 1..(k - 1) : list[j].id # rec.id
         IN [list EXCEPT ![idx] = rec]
    ELSE Append(list, rec)

\* await fetch(API_URL, { body: JSON.stringify({ action, data }) })
fetch(action, data) == [action |-> action, data |-> data, state |-> "pending"]

\* a failed call restores what an add_consumption pushed
afterRejection_RolledBack(cache, call) ==
    IF call.action = "add_consumption"
    THEN [cache EXCEPT !.consumption = withoutIds(@, {call.data.id})]
    ELSE cache

\* the promise rejects in the caller; the service has no catch
afterRejection(cache, call) == cache

storeFrame == <<today, result, tally, reportVars, form, isLoaded, remote, sessions>>

addConsumption(entry) ==
    /\ Len(fetches) < MaxFetches
    /\ Len(consumptions) < MaxCached
    /\ consumptions' = Append(consumptions, entry)
    /\ fetches' = Append(fetches, fetch("add_consumption", entry))
    /\ UNCHANGED <<employees, activeEmployeeCount, cacheItems, dailyAdjustments,
                   fallback, storeFrame>>

addConsumptionBatch(entries) ==
    /\ Len(fetches) < MaxFetches
    /\ Len(consumptions) + Len(entries) <= MaxCached
    /\ consumptions' = consumptions \o entries
    /\ fetches' = Append(fetches, fetch("add_consumption_batch", entries))
    /\ UNCHANGED <<employees, activeEmployeeCount, cacheItems, dailyAdjustments,
                   fallback, storeFrame>>

removeConsumption(id) ==
    /\ Len(fetches) < MaxFetches
    /\ consumptions' = SelectSeq(consumptions, LAMBDA c : c.id # id)
    /\ fetches' = Append(fetches, fetch("delete_consumption", [id |-> id]))
    /\ UNCHANGED <<employees, activeEmployeeCount, cacheItems, dailyAdjustments,
                   fallback, storeFrame>>

removeConsumptionBatch(ids) ==
    /\ Len(fetches) < MaxFetches
    /\ consumptions' = withoutIds(consumptions, Range(ids))
    /\ fetches' = Append(fetches, fetch("delete_consumption_batch", [ids |-> ids]))
    /\ UNCHANGED <<employees, activeEmployeeCount, cacheItems, dailyAdjustments,
                   fallback, storeFrame>>

saveDailyAdjustments(adjustments) ==
    /\ Len(fetches) < MaxFetches
    /\ dailyAdjustments' = adjustments
    /\ fetches' = Append(fetches, fetch("save_adjustments", adjustments))
    /\ UNCHANGED <<consumptions, employees, activeEmployeeCount, cacheItems,
                   fallback, storeFrame>>

saveEmployee(employee) ==
    /\ Len(fetches) < MaxFetches
    /\ employees' = upsert(employees, employee)
    /\ activeEmployeeCount' = getActiveEmployeesCount(employees')
    /\ fetches' = Append(fetches, fetch("save_employee", employee))
    /\ fallback' = IF fallback.aliased
                   THEN [fallback EXCEPT !.employees = employees']
                   ELSE fallback
    /\ UNCHANGED <<consumptions, cacheItems, dailyAdjustments, storeFrame>>

saveItem(item) ==
    /\ Len(fetches) < MaxFetches
    /\ cacheItems' = upsert(cacheItems, item)
    /\ fetches' = Append(fetches, fetch("save_item", item))
    /\ fallback' = IF fallback.aliased
                   THEN [fallback EXCEPT !.items = cacheItems']
                   ELSE fallback
    /\ UNCHANGED <<consumptions, employees, activeEmployeeCount, dailyAdjustments, storeFrame>>

\* the remote call of fetches[i] succeeds
fetchResolves(i) ==
    /\ i \in 1..Len(fetches)
    /\ fetches[i].state = "pending"
    /\ fetches' = [fetches EXCEPT ![i].state = "fulfilled"]
    /\ UNCHANGED <<consumptions, employees, activeEmployeeCount, cacheItems,
                   dailyAdjustments, fallback, storeFrame>>

\* the remote call of fetches[i] fails
fetchRejects(i) ==
    /\ i \in 1..Len(fetches)
    /\ fetches[i].state = "pending"
    /\ fetches' = [fetches EXCEPT ![i].state = "rejected"]
    /\ LET cache == afterRejection(Cache, fetches[i])
       IN /\ consumptions' = cache.consumption
          /\ employees' = cache.employees
          /\ cacheItems' = cache.items
          /\ dailyAdjustments' = cache.dailyAdjustments
    /\ UNCHANGED <<activeEmployeeCount, fallback, storeFrame>>

\* the cache as constructed: empty lists, nothing loaded
InitStore ==
    /\ consumptions = <<>>
    /\ employees = <<>>
    /\ activeEmployeeCount = 0
    /\ dailyAdjustments = EmptyMap
    /\ today = 1
    /\ result = NoResult
    /\ tally = NoTally
    /\ ReportIdle
    /\ StoreIdle

NextStore ==
    \/ \E entry \in StoreEntries : addConsumption(entry)
    \/ \E entries \in StoreBatches : addConsumptionBatch(entries)
    \/ \E id \in StoreIds : removeConsumption(id)
    \/ \E ids \in StoreIdLists : removeConsumptionBatch(ids)
    \/ \E adjustments \in StoreTables : saveDailyAdjustments(adjustments)
    \/ \E employee \in StoreEmployees : saveEmployee(employee)
    \/ \E item \in StoreItems : saveItem(item)
    \/ \E i \in 1..MaxFetches : fetchResolves(i)
    \/ \E i \in 1..MaxFetches : fetchRejects(i)

SpecStore == InitStore /\ [][NextStore]_vars

\* the call just issued is the last of fetches and has not settled
Issued(action) ==
    /\ Len(fetches') = Len(fetches) + 1
    /\ fetches'[Len(fetches')].action = action
    /\ fetches'[Len(fetches')].state = "pending"

\* C19: every mutation of the service shows its change through the getters in
\* the step that invokes it, while its remote call is still pending, and a
\* remote call that fails leaves what the getters return as it was.
C19_Optimistic ==
    [][ /\ \A entry \in StoreEntries : addConsumption(entry) =>
              /\ Getters'.getConsumptions = Append(Getters.getConsumptions, entry)
              /\ Issued("add_consumption")
        /\ \A entries \in StoreBatches : addConsumptionBatch(entries) =>
              /\ Getters'.getConsumptions = Getters.getConsumptions \o entries
              /\ Issued("add_consumption_batch")
        /\ \A id \in StoreIds : removeConsumption(id) =>
              /\ \A k \in 1..Len(Getters'.getConsumptions) :
                     Getters'.getConsumptions[k].id # id
              /\ Issued("delete_consumption")
        /\ \A ids \in StoreIdLists : removeConsumptionBatch(ids) =>
              /\ \A k \in 1..Len(Getters'.getConsumptions) :
                     Getters'.getConsumptions[k].id \notin Range(ids)
              /\ Issued("delete_consumption_batch")
        /\ \A adjustments \in StoreTables : saveDailyAdjustments(adjustments) =>
              /\ Getters'.getDailyAdjustments = adjustments
              /\ Issued("save_adjustments")
        /\ \A employee \in StoreEmployees : saveEmployee(employee) =>
              /\ employee \in Range(Getters'.getEmployees)
              /\ Getters'.getActiveEmployeesCount
                     = Len(SelectSeq(Getters'.getEmployees, LAMBDA e : e.isActive))
              /\ Issued("save_employee")
        /\ \A item \in StoreItems : saveItem(item) =>
              /\ item \in Range(Getters'.getItems)
              /\ Issued("save_item")
        /\ \A i \in 1..MaxFetches : fetchRejects(i) => Getters' = Getters
      ]_vars

\* a record pushed by addConsumption whose remote call failed is still returned
\* by getConsumptions, next to one whose call is still pending
C19_Witness ==
    /\ \E i \in 1..Len(fetches) :
          /\ fetches[i].state = "rejected"
          /\ fetches[i].action = "add_consumption"
          /\ fetches[i].data \in Range(Getters.getConsumptions)
    /\ \E i \in 1..Len(fetches) :
          /\ fetches[i].state = "pending"
          /\ fetches[i].action = "add_consumption"
          /\ fetches[i].data \in Range(Getters.getConsumptions)

(***************************************************************************)
(* components/DailyEntry.tsx: the entry form.  handleSubmit adds a batch,  *)
(* or in edit mode removes the edited batch, awaits that call and then     *)
(* adds the new batch; confirmDelete removes a group of the activity feed. *)
(* An id "c<n>" is kept as the number n; every record here was created by  *)
(* the form, so every id has the prefix.                                   *)
(***************************************************************************)
MaxId == 3

\* what the form has selected: the drink, then the filled snack slots
Selections ==
    LET it(id) == CHOOSE c \in Catalogue : c.itemId = id
    IN { <<>>, <<it("tea")>>, <<it("bonda")>>, <<it("tea"), it("bonda")>> }

\* allLogs.reduce((max, log) => ..., 0)
RECURSIVE currentMaxIdOf(_)
currentMaxIdOf(allLogs) ==
    IF allLogs = <<>> THEN 0
    ELSE Max(Head(allLogs).id, currentMaxIdOf(Tail(allLogs)))

\* new Date().toISOString(): later than the timestamp of every cached record
timestampAfter(allLogs) ==
    1 + currentMaxIdOf([k \in 1..Len(allLogs) |-> [id |-> allLogs[k].date.hh]])

\* createEntry for the drink and for each snack slot, currentMaxId++ each time
newEntriesOf(selection, allLogs) ==
    [k \in 1..Len(selection) |->
        Consumption(currentMaxIdOf(allLogs) + k, "e1", selection[k], 1,
                    timestampAfter(allLogs), 1)]

\* groupedLogs: the records of recentLog that share timestamp and employee
GroupKeys == { <<form.recentLog[k].date, form.recentLog[k].employeeId>> :
                 k \in 1..Len(form.recentLog) }

GroupOf(key) ==
    SelectSeq(form.recentLog, LAMBDA l : <<l.date, l.employeeId>> = key)

idsOf(logs) == [k \in 1..Len(logs) |-> logs[k].id]

\* the pending call a handler is suspended on
CallIndex(action, data) ==
    CHOOSE i \in 1..Len(fetches) :
        fetches[i].action = action /\ fetches[i].data = data

Awaited(action, data) ==
    \E i \in 1..Len(fetches) :
        fetches[i].action = action /\ fetches[i].data = data

Settled(i) == SelectSeq([k \in 1..Len(fetches) |-> [at |-> k, call |-> fetches[k]]],
                        LAMBDA x : x.at # i)

Dropped(i) == [k \in 1..Len(Settled(i)) |-> Settled(i)[k].call]

entryFrame == <<employees, activeEmployeeCount, dailyAdjustments, today, result,
                tally, reportVars, cacheItems, loadVars>>

\* the form after resetForm
resetForm(f) == [f EXCEPT !.editingLogIds = <<>>]

handleEditGroup(key) ==
    /\ form.editingLogIds = <<>>
    /\ form.deletingId = <<>>
    /\ key \in GroupKeys
    /\ form' = [form EXCEPT !.editingLogIds = idsOf(GroupOf(key))]
    /\ UNCHANGED <<consumptions, fetches, entryFrame>>

\* a handler that never sees a submit in progress
returnsEarly_Never(f) == FALSE

\* if (submitting) return, on the state of the last render
returnsEarly(f) == f.submitting

\* handleSubmit up to its first await: in edit mode the removal of the old
\* batch, otherwise the creation and the addition of the new one
handleSubmit(selection) ==
    /\ ~returnsEarly(form)
    /\ currentMaxIdOf(consumptions) + Len(selection) <= MaxId
    /\ IF form.editingLogIds # <<>>
       THEN /\ consumptions' = withoutIds(consumptions, Range(form.editingLogIds))
            /\ fetches' = Append(fetches, fetch("delete_consumption_batch",
                                                [ids |-> form.editingLogIds]))
            /\ form' = [form EXCEPT !.submitting = TRUE,
                           !.running = [awaiting |-> "remove",
                                        editingLogIds |-> form.editingLogIds,
                                        selection |-> selection,
                                        newEntries |-> <<>>]]
       ELSE /\ selection # <<>>
            /\ LET newEntries == newEntriesOf(selection, consumptions)
               IN /\ consumptions' = consumptions \o newEntries
                  /\ fetches' = Append(fetches, fetch("add_consumption_batch", newEntries))
                  /\ form' = [form EXCEPT !.submitting = TRUE,
                                 !.running = [awaiting |-> "add",
                                              editingLogIds |-> <<>>,
                                              selection |-> selection,
                                              newEntries |-> newEntries]]
    /\ UNCHANGED entryFrame

\* the removal of the old batch is confirmed: handleSubmit goes on to create
\* the new entries from the cache as it is now
removeResolved ==
    /\ form.running.awaiting = "remove"
    /\ Awaited("delete_consumption_batch", [ids |-> form.running.editingLogIds])
    /\ LET i == CallIndex("delete_consumption_batch",
                          [ids |-> form.running.editingLogIds])
           newEntries == newEntriesOf(form.running.selection, consumptions)
       IN IF newEntries # <<>>
          THEN /\ consumptions' = consumptions \o newEntries
               /\ fetches' = Append(Dropped(i), fetch("add_consumption_batch", newEntries))
               /\ form' = [form EXCEPT !.running.awaiting = "add",
                                       !.running.newEntries = newEntries]
          ELSE /\ consumptions' = consumptions
               /\ fetches' = Dropped(i)
               /\ form' = [resetForm(form) EXCEPT !.recentLog = consumptions,
                                                  !.submitting = FALSE,
                                                  !.running = NoRun]
    /\ UNCHANGED entryFrame

\* the removal fails: the finally block only
removeRejected ==
    /\ form.running.awaiting = "remove"
    /\ Awaited("delete_consumption_batch", [ids |-> form.running.editingLogIds])
    /\ fetches' = Dropped(CallIndex("delete_consumption_batch",
                                    [ids |-> form.running.editingLogIds]))
    /\ form' = [form EXCEPT !.submitting = FALSE, !.running = NoRun]
    /\ UNCHANGED <<consumptions, entryFrame>>

\* the addition is confirmed: refreshLogs, resetForm, finally
addResolved ==
    /\ form.running.awaiting = "add"
    /\ Awaited("add_consumption_batch", form.running.newEntries)
    /\ fetches' = Dropped(CallIndex("add_consumption_batch", form.running.newEntries))
    /\ form' = [resetForm(form) EXCEPT !.recentLog = consumptions,
                                       !.submitting = FALSE,
                                       !.running = NoRun]
    /\ UNCHANGED <<consumptions, entryFrame>>

addRejected ==
    /\ form.running.awaiting = "add"
    /\ Awaited("add_consumption_batch", form.running.newEntries)
    /\ fetches' = Dropped(CallIndex("add_consumption_batch", form.running.newEntries))
    /\ form' = [form EXCEPT !.submitting = FALSE, !.running = NoRun]
    /\ UNCHANGED <<consumptions, entryFrame>>

confirmDelete(key) ==
    /\ form.deletingId = <<>>
    /\ form.editingLogIds = <<>>
    /\ key \in GroupKeys
    /\ LET idsToDelete == idsOf(GroupOf(key))
       IN /\ consumptions' = withoutIds(consumptions, Range(idsToDelete))
          /\ fetches' = Append(fetches, fetch("delete_consumption_batch", [ids |-> idsToDelete]))
          /\ form' = [form EXCEPT !.deletingId = idsToDelete]
    /\ UNCHANGED entryFrame

deleteResolved ==
    /\ form.deletingId # <<>>
    /\ Awaited("delete_consumption_batch", [ids |-> form.deletingId])
    /\ fetches' = Dropped(CallIndex("delete_consumption_batch", [ids |-> form.deletingId]))
    /\ form' = [form EXCEPT !.recentLog = consumptions, !.deletingId = <<>>]
    /\ UNCHANGED <<consumptions, entryFrame>>

deleteRejected ==
    /\ form.deletingId # <<>>
    /\ Awaited("delete_consumption_batch", [ids |-> form.deletingId])
    /\ fetches' = Dropped(CallIndex("delete_consumption_batch", [ids |-> form.deletingId]))
    /\ form' = [form EXCEPT !.deletingId = <<>>]
    /\ UNCHANGED <<consumptions, entryFrame>>

InitEntry ==
    /\ consumptions = <<>>
    /\ employees = << Employee("e1", TRUE) >>
    /\ activeEmployeeCount = 1
    /\ dailyAdjustments = EmptyMap
    /\ today = 1
    /\ result = NoResult
    /\ tally = NoTally
    /\ ReportIdle
    /\ StoreIdle

NextEntry ==
    \/ \E selection \in Selections : handleSubmit(selection)
    \/ \E key \in GroupKeys : handleEditGroup(key)
    \/ \E key \in GroupKeys : confirmDelete(key)
    \/ removeResolved
    \/ removeRejected
    \/ addResolved
    \/ addRejected
    \/ deleteResolved
    \/ deleteRejected

SpecEntry == InitEntry /\ [][NextEntry]_vars

IdsDistinct(logs) ==
    \A i \in 1..Len(logs) : \A j \in 1..Len(logs) : i # j => logs[i].id # logs[j].id

\* handleSubmit has just created its entries and pushed them
Created == form.running.awaiting # "add" /\ form'.running.awaiting = "add"

\* C20: the entries handleSubmit creates have ids that no record of the cache
\* has, that differ within the batch and, in edit mode, that differ from the
\* ids of the batch being replaced; the ids of the cached records are
\* pairwise distinct after every step.
C20_FreshIds ==
    [][ /\ Created =>
            LET new == Range(idsOf(form'.running.newEntries))
            IN /\ new \cap Range(idsOf(consumptions)) = {}
               /\ IdsDistinct(form'.running.newEntries)
               /\ new \cap Range(form'.running.editingLogIds) = {}
        /\ IdsDistinct(consumptions')
      ]_vars

\* a handleSubmit that runs in edit mode returns in this step
EditEnds == form.running.editingLogIds # <<>> /\ form'.running = NoRun

\* the records of the batch being edited, as the activity feed holds them, and
\* the records the running handleSubmit has created or would create
OldBatch ==
    { l \in Range(form.recentLog) : l.id \in Range(form.running.editingLogIds) }

NewBatch ==
    IF form.running.awaiting = "add"
    THEN Range(form.running.newEntries)
    ELSE Range(newEntriesOf(form.running.selection, consumptions))

\* C21: when a handleSubmit in edit mode returns, after a confirmed or a failed
\* storage call, the cache holds every record of the old batch or every record
\* of the new batch.
C21_EditKeepsEntry ==
    [][ EditEnds => \/ OldBatch \subseteq Range(consumptions')
                    \/ NewBatch \subseteq Range(consumptions') ]_vars

(***************************************************************************)
(* storageService.ts init: the load of the cache from the store.  A call   *)
(* made before the cache is marked loaded issues a GET; several components *)
(* call init when they mount, so several GETs can be in flight.  The store *)
(* itself is outside the repository: it answers a GET with its sheet and   *)
(* applies the action of a POST.                                           *)
(***************************************************************************)
MaxInits == 3

LoadEntries == { Consumption(1, "e1", it, 1, 12, q) :
                   it \in { c \in Catalogue : c.itemId = "bonda" }, q \in {1} }

LoadEmployees == { Employee("e1", FALSE), Employee("e2", TRUE) }

LoadItems == { Item("tea", 12) }

\* what the sheet can hold when the session starts: nothing, or an employee,
\* an item and a record whose quantity cell is empty
Sheets ==
    { EmptySheet,
      [employees |-> << Employee("e1", TRUE) >>,
       items |-> << Item("tea", 10) >>,
       consumption |-> << Consumption(2, "e1", CHOOSE c \in Catalogue : c.itemId = "tea",
                                      1, 12, 0) >>,
       dailyAdjustments |-> EmptyMap] }

\* the loader's record of a consumption row: quantity > 0 ? quantity : 1
loadedConsumption(raw) ==
    [raw EXCEPT !.quantity = IF raw.quantity > 0 THEN raw.quantity ELSE 1]

loadedList(rows) == [k \in 1..Len(rows) |-> loadedConsumption(rows[k])]

\* a store that merges a saved table into the table it holds
applied_Merged(sheet, call) ==
    IF call.action = "save_adjustments"
    THEN [sheet EXCEPT !.dailyAdjustments =
             Nest([k \in Entries(@) \cup Entries(call.data) |->
                      IF k \in Entries(call.data)
                      THEN call.data[k[1]][k[2]][k[3]]
                      ELSE @[k[1]][k[2]][k[3]]])]
    ELSE sheet

\* the store applies the action of a POST to its sheet
applied(sheet, call) ==
    CASE call.action = "add_consumption" ->
             [sheet EXCEPT !.consumption = Append(@, call.data)]
      [] call.action = "add_consumption_batch" ->
             [sheet EXCEPT !.consumption = @ \o call.data]
      [] call.action = "delete_consumption" ->
             [sheet EXCEPT !.consumption = withoutIds(@, {call.data.id})]
      [] call.action = "delete_consumption_batch" ->
             [sheet EXCEPT !.consumption = withoutIds(@, Range(call.data.ids))]
      [] call.action = "save_adjustments" ->
             [sheet EXCEPT !.dailyAdjustments = call.data]
      [] call.action = "save_employee" ->
             [sheet EXCEPT !.employees = upsert(@, call.data)]
      [] call.action = "save_item" ->
             [sheet EXCEPT !.items = upsert(@, call.data)]
      [] OTHER -> sheet

IsGet(i) ==
    /\ i \in 1..Len(fetches)
    /\ fetches[i].action = "GET"
    /\ fetches[i].state = "pending"

IsPost(i) ==
    /\ i \in 1..Len(fetches)
    /\ fetches[i].action # "GET"
    /\ fetches[i].state = "pending"

loadFrame == <<today, result, tally, reportVars, form, sessions>>

\* init before the cache is loaded: up to the await of the GET
init ==
    /\ ~isLoaded
    /\ Len(SelectSeq(fetches, LAMBDA c : c.action = "GET")) < MaxInits
    /\ Len(fetches) < MaxFetches
    /\ fetches' = Append(fetches, fetch("GET", <<>>))
    /\ UNCHANGED <<consumptions, employees, activeEmployeeCount, dailyAdjustments,
                   cacheItems, isLoaded, fallback, remote, loadFrame>>

\* the built-in lists replace empty employees; the cache then refers to the
\* FALLBACK_ arrays themselves
caught(emps, its) ==
    IF Len(emps) = 0
    THEN [employees |-> fallback.employees, items |-> fallback.items,
          aliased |-> TRUE]
    ELSE [employees |-> emps, items |-> its, aliased |-> fallback.aliased]

\* cache.isLoaded = true at the end of the catch block
loadedAfterCatch == TRUE

\* the GET rejects, answers with a status that is not OK, with an empty body
\* or with a body that is not JSON: the catch block
initFails(i, why) ==
    /\ IsGet(i)
    /\ LET c == caught(employees, cacheItems)
       IN /\ employees' = c.employees
          /\ cacheItems' = c.items
          /\ fallback' = [fallback EXCEPT !.aliased = c.aliased]
    /\ activeEmployeeCount' = getActiveEmployeesCount(employees')
    /\ isLoaded' = loadedAfterCatch
    /\ fetches' = Dropped(i)
    /\ UNCHANGED <<consumptions, dailyAdjustments, remote, loadFrame>>

\* the GET answers with the sheet: the four assignments of the try block
initLoads(i) ==
    /\ IsGet(i)
    /\ employees' = remote.employees
    /\ cacheItems' = remote.items
    /\ consumptions' = loadedList(remote.consumption)
    /\ dailyAdjustments' = remote.dailyAdjustments
    /\ fallback' = [fallback EXCEPT !.aliased = FALSE]
    /\ activeEmployeeCount' = getActiveEmployeesCount(employees')
    /\ isLoaded' = TRUE
    /\ fetches' = Dropped(i)
    /\ UNCHANGED <<remote, loadFrame>>

\* the GET answers with a body whose consumption is not a list: employees and
\* items are assigned, the map of the consumption throws, the catch block
initLoadsPartly(i) ==
    /\ IsGet(i)
    /\ LET c == caught(remote.employees, remote.items)
       IN /\ employees' = c.employees
          /\ cacheItems' = c.items
          /\ fallback' = [fallback EXCEPT !.aliased = c.aliased]
    /\ activeEmployeeCount' = getActiveEmployeesCount(employees')
    /\ isLoaded' = loadedAfterCatch
    /\ fetches' = Dropped(i)
    /\ UNCHANGED <<consumptions, dailyAdjustments, remote, loadFrame>>

\* the store receives a POST and applies it
storeReceives(i) ==
    /\ IsPost(i)
    /\ remote' = applied(remote, fetches[i])
    /\ fetches' = [fetches EXCEPT ![i].state = "fulfilled"]
    /\ UNCHANGED <<consumptions, employees, activeEmployeeCount, dailyAdjustments,
                   cacheItems, isLoaded, fallback, loadFrame>>

InitLoad ==
    /\ consumptions = <<>>
    /\ employees = <<>>
    /\ activeEmployeeCount = 0
    /\ dailyAdjustments = EmptyMap
    /\ today = 1
    /\ result = NoResult
    /\ tally = NoTally
    /\ ReportIdle
    /\ cacheItems = <<>>
    /\ fetches = <<>>
    /\ form = NoForm
    /\ isLoaded = FALSE
    /\ fallback = [employees |-> FALLBACK_EMPLOYEES, items |-> FALLBACK_ITEMS,
                   aliased |-> FALSE]
    /\ remote \in Sheets
    /\ sessions = <<>>

\* the screens call the mutations once their own init has returned
NextLoad ==
    \/ init
    \/ \E i \in 1..MaxFetches :
          \E why \in {"unreachable", "HTTP Error", "Empty response", "Invalid JSON"} :
             initFails(i, why)
    \/ \E i \in 1..MaxFetches : initLoads(i)
    \/ \E i \in 1..MaxFetches : initLoadsPartly(i)
    \/ \E entry \in LoadEntries : isLoaded /\ addConsumption(entry)
    \/ \E entry \in LoadEntries : isLoaded /\ addConsumptionBatch(<<entry>>)
    \/ \E id \in StoreIds : isLoaded /\ removeConsumption(id)
    \/ \E employee \in LoadEmployees : isLoaded /\ saveEmployee(employee)
    \/ \E item \in LoadItems : isLoaded /\ saveItem(item)
    \/ \E i \in 1..MaxFetches : storeReceives(i)
    \/ \E i \in 1..MaxFetches : IsPost(i) /\ fetchRejects(i)

SpecLoad == InitLoad /\ [][NextLoad]_vars

\* the records this session has pushed with addConsumption or
\* addConsumptionBatch
LocalAdds ==
    UNION { IF fetches[i].action = "add_consumption" THEN {fetches[i].data}
            ELSE IF fetches[i].action = "add_consumption_batch"
                 THEN Range(fetches[i].data)
                 ELSE {} : i \in 1..Len(fetches) }

\* the step is a remove operation that names the id
Removes(id) ==
    \/ removeConsumption(id)
    \/ \E ids \in StoreIdLists : id \in Range(ids) /\ removeConsumptionBatch(ids)

\* C22: a record pushed by addConsumption or addConsumptionBatch that
\* getConsumptions returns is still returned after every step that is not a
\* remove operation naming its id, whatever init calls resolve in between.
C22_LocalWritesSurvive ==
    [][ \A r \in LocalAdds \cap Range(Getters.getConsumptions) :
            r \in Range(Getters'.getConsumptions) \/ Removes(r.id) ]_vars

\* an init call returns in this step
InitEnds ==
    \E i \in 1..MaxFetches :
        \/ \E why \in {"unreachable", "HTTP Error", "Empty response", "Invalid JSON"} :
              initFails(i, why)
        \/ initLoads(i)
        \/ initLoadsPartly(i)

\* C23: when the GET of an init fails, answers with a status that is not OK
\* or with a body that is not JSON, and no employee is cached, getEmployees
\* and getItems return the built-in lists afterwards; every init that returns
\* leaves the cache marked loaded.
C23_FallbackOnFailure ==
    [][ /\ \A i \in 1..MaxFetches :
              \A why \in {"unreachable", "HTTP Error", "Invalid JSON"} :
                 (initFails(i, why) /\ Len(Getters.getEmployees) = 0) =>
                     /\ Getters'.getEmployees = FALLBACK_EMPLOYEES
                     /\ Getters'.getItems = FALLBACK_ITEMS
        /\ InitEnds => isLoaded'
      ]_vars

(***************************************************************************)
(* WeeklyReport handleSaveAdjustment against the store, from two sessions. *)
(* A session is a browser with its own cache; each loads the table once    *)
(* and saves by posting the whole table it holds.                          *)
(***************************************************************************)
SessionIds == {"A", "B"}

DraftCounts == 1..2

\* one employee's drafts of the selected date: itemId -> count
DraftSets == { i :> n : i \in SnackIds, n \in DraftCounts }

\* a save that replaces the whole day with the drafts of the one employee
savedTable_WholeDay(allAdjustments, adjustmentDate, empId, empDrafts) ==
    [d \in DOMAIN allAdjustments \cup {adjustmentDate} |->
        IF d = adjustmentDate THEN [e \in {empId} |-> empDrafts]
        ELSE allAdjustments[d]]

\* allAdjustments[adjustmentDate][empId][itemId] = empDrafts[itemId], for each
\* drafted item, creating the date and the employee where they are missing
savedTable(allAdjustments, adjustmentDate, empId, empDrafts) ==
    LET ofDate == IF adjustmentDate \in DOMAIN allAdjustments
                  THEN allAdjustments[adjustmentDate] ELSE EmptyMap
        ofEmp == IF empId \in DOMAIN ofDate THEN ofDate[empId] ELSE EmptyMap
        newEmp == [i \in DOMAIN ofEmp \cup DOMAIN empDrafts |->
                      IF i \in DOMAIN empDrafts THEN empDrafts[i] ELSE ofEmp[i]]
        newDate == [e \in DOMAIN ofDate \cup {empId} |->
                      IF e = empId THEN newEmp ELSE ofDate[e]]
    IN [d \in DOMAIN allAdjustments \cup {adjustmentDate} |->
           IF d = adjustmentDate THEN newDate ELSE allAdjustments[d]]

NoSession == [table |-> EmptyMap, isLoaded |-> FALSE]

sessionFrame == <<consumptions, employees, activeEmployeeCount, dailyAdjustments,
                  today, result, tally, reportVars, cacheItems, form, isLoaded,
                  fallback>>

\* init of session s ends with the answer to its GET
sessionLoads(s) ==
    /\ ~sessions[s].isLoaded
    /\ sessions' = [sessions EXCEPT ![s] = [table |-> remote.dailyAdjustments,
                                            isLoaded |-> TRUE]]
    /\ UNCHANGED <<remote, fetches, sessionFrame>>

\* handleSaveAdjustment in session s, up to the await of the POST
sessionSaves(s, adjustmentDate, empId, empDrafts) ==
    /\ sessions[s].isLoaded
    /\ Len(fetches) < MaxFetches
    /\ LET allAdjustments == savedTable(sessions[s].table, adjustmentDate,
                                        empId, empDrafts)
       IN /\ sessions' = [sessions EXCEPT ![s].table = allAdjustments]
          /\ fetches' = Append(fetches, fetch("save_adjustments", allAdjustments)
                                          @@ [session |-> s])
    /\ UNCHANGED <<remote, sessionFrame>>

InitSessions ==
    /\ consumptions = <<>>
    /\ employees = <<>>
    /\ activeEmployeeCount = 0
    /\ dailyAdjustments = EmptyMap
    /\ today = 1
    /\ result = NoResult
    /\ tally = NoTally
    /\ ReportIdle
    /\ cacheItems = <<>>
    /\ fetches = <<>>
    /\ form = NoForm
    /\ isLoaded = FALSE
    /\ fallback = [employees |-> FALLBACK_EMPLOYEES, items |-> FALLBACK_ITEMS,
                   aliased |-> FALSE]
    /\ remote \in { [EmptySheet EXCEPT !.dailyAdjustments = t] : t \in StoreTables }
    /\ sessions = [s \in SessionIds |-> NoSession]

NextSessions ==
    \/ \E s \in SessionIds : sessionLoads(s)
    \/ \E s \in SessionIds : \E e \in EmpIds : \E empDrafts \in DraftSets :
          sessionSaves(s, 1, e, empDrafts)
    \/ \E i \in 1..MaxFetches : storeReceives(i)
    \/ \E i \in 1..MaxFetches : IsPost(i) /\ fetchRejects(i)

SpecSessions == InitSessions /\ [][NextSessions]_vars

CountAt(table, key) == adjustCountOf(table, key[1], key[2], key[3])

\* C24: a save posts the whole table of its session, and the store keeps the
\* table it received last: once the store has received a save, every entry it
\* held that the saving session's table does not hold is gone, among them the
\* adjustment the other session saved after both had loaded the same table.
C24_LastWriterWins ==
    [][ /\ \A s \in SessionIds : \A e \in EmpIds : \A empDrafts \in DraftSets :
              sessionSaves(s, 1, e, empDrafts) =>
                  fetches'[Len(fetches')].data = sessions'[s].table
        /\ \A i \in 1..MaxFetches :
              (storeReceives(i) /\ fetches[i].action = "save_adjustments") =>
                  /\ remote'.dailyAdjustments = fetches[i].data
                  /\ \A key \in Entries(remote.dailyAdjustments)
                                  \ Entries(fetches[i].data) :
                         key \notin Entries(remote'.dailyAdjustments)
      ]_vars

\* A and B loaded the same table, A saved an adjustment and the store received
\* it, then B saved another one and the store received that: the stored table
\* is B's and does not hold A's adjustment
C24_Witness ==
    /\ Len(fetches) = 2
    /\ fetches[1].session = "A" /\ fetches[1].state = "fulfilled"
    /\ fetches[2].session = "B" /\ fetches[2].state = "fulfilled"
    /\ remote.dailyAdjustments = fetches[2].data
    /\ \E key \in Entries(fetches[1].data) :
          /\ key \notin Entries(fetches[2].data)
          /\ key \notin Entries(remote.dailyAdjustments)
          /\ CountAt(sessions["A"].table, key) > 0

(***************************************************************************)
(* WeeklyReport: the drafts of manual adjustments and their save.  The     *)
(* screen of part_005 adjusts the local day the clock shows when a handler *)
(* runs; the screen of part_004 adjusts the day chosen in its date picker. *)
(* storedDailyAdjustments is the object the cache holds, so the cache's    *)
(* table stands for both.                                                  *)
(***************************************************************************)
DraftLogs ==
    LET it(id) == CHOOSE c \in Catalogue : c.itemId = id
    IN << Consumption(1, "e1", it("bonda"), 1, 12, 2),
          Consumption(2, "e2", it("bonda"), 1, 12, 1),
          Consumption(3, "e1", it("vada"), 2, 12, 1) >>

\* what the sheet held at load: nothing, or a count left from records since
\* deleted
LoadedTables == { EmptyMap, Nest(<<1, "e2", "bonda">> :> 3) }

\* the day a handler adjusts, and the day the buttons on display belong to
adjustmentDateNow ==
    IF screen.datePicker THEN screen.adjustmentDate ELSE today

renderedDate ==
    IF screen.datePicker THEN screen.adjustmentDate ELSE screen.rendered

\* getTodaySnackItems / getSnackItemsForAdjustmentDate: totalQty of an item
totalQtyOf(date, empId, itemId) ==
    SumSeq([g \in DOMAIN dailyGroupedLogs |->
        IF dailyGroupedLogs[g].date # date THEN 0
        ELSE SumSeq([k \in DOMAIN dailyGroupedLogs[g].logs |->
                 LET l == dailyGroupedLogs[g].logs[k]
                 IN IF l.itemType = "snack" /\ l.employeeId = empId
                       /\ l.itemId = itemId
                    THEN l.quantity ELSE 0])])

\* the draft shown for an item: the draft if there is one, else the stored count
draftOf(empId, itemId) ==
    IF empId \in DOMAIN screen.draftAdjustments
       /\ itemId \in DOMAIN screen.draftAdjustments[empId]
    THEN screen.draftAdjustments[empId][itemId]
    ELSE adjustCountOf(dailyAdjustments, adjustmentDateNow, empId, itemId)

displayValOf(empId, itemId) ==
    IF empId \in DOMAIN screen.draftAdjustments
       /\ itemId \in DOMAIN screen.draftAdjustments[empId]
    THEN screen.draftAdjustments[empId][itemId]
    ELSE adjustCountOf(dailyAdjustments, renderedDate, empId, itemId)

\* newVal = baseVal + delta, then the two clamps
newValOf(baseVal, delta, maxQty) ==
    IF baseVal + delta < 0 THEN 0
    ELSE IF baseVal + delta > maxQty THEN maxQty
    ELSE baseVal + delta

\* { ...prev, [empId]: { ...empDrafts, [itemId]: newVal } }
withDraft(prev, empId, itemId, newVal) ==
    LET empDrafts == IF empId \in DOMAIN prev THEN prev[empId] ELSE EmptyMap
    IN [e \in DOMAIN prev \cup {empId} |->
           IF e = empId
           THEN [i \in DOMAIN empDrafts \cup {itemId} |->
                    IF i = itemId THEN newVal ELSE empDrafts[i]]
           ELSE prev[e]]

withoutDraft(prev, empId) == [e \in DOMAIN prev \ {empId} |-> prev[e]]

\* effectiveDailyAdjustments: the stored table with every employee's drafts
\* laid over the adjusted day
effectiveDailyAdjustments(stored, drafts, date) ==
    LET ofDate == IF date \in DOMAIN stored THEN stored[date] ELSE EmptyMap
    IN [d \in DOMAIN stored \cup {date} |->
          IF d # date THEN stored[d]
          ELSE [e \in DOMAIN ofDate \cup DOMAIN drafts |->
                   IF e \notin DOMAIN drafts THEN ofDate[e]
                   ELSE LET ofEmp == IF e \in DOMAIN ofDate THEN ofDate[e]
                                     ELSE EmptyMap
                        IN [i \in DOMAIN ofEmp \cup DOMAIN drafts[e] |->
                               IF i \in DOMAIN drafts[e] THEN drafts[e][i]
                               ELSE ofEmp[i]]]]

\* the effect: calculateReport on the effective table
reportOf(stored, drafts, date, day) ==
    calculateBilling(SelectSeq(consumptions, LAMBDA c : inRange(c, tz, range)),
                     employees, activeEmployeeCount,
                     effectiveDailyAdjustments(stored, drafts, date), day)

draftFrame == <<consumptions, employees, activeEmployeeCount, tally, tz, range,
                dailyGroupedLogs, cacheItems, form, loadVars>>

\* a click on the minus or the plus button of an item on display
handleDraftChange(empId, itemId, delta) ==
    /\ screen.savingEmpId # empId
    /\ totalQtyOf(renderedDate, empId, itemId) > 0
    /\ delta < 0 => displayValOf(empId, itemId) > 0
    /\ delta > 0 => displayValOf(empId, itemId) < totalQtyOf(renderedDate, empId, itemId)
    /\ LET newVal == newValOf(draftOf(empId, itemId), delta,
                              totalQtyOf(renderedDate, empId, itemId))
       IN screen' = [screen EXCEPT
                        !.draftAdjustments = withDraft(@, empId, itemId, newVal),
                        !.rendered = today]
    /\ result' = reportOf(dailyAdjustments, screen'.draftAdjustments,
                          adjustmentDateNow, today)
    /\ UNCHANGED <<dailyAdjustments, today, fetches, draftFrame>>

\* handleSaveAdjustment up to the await of saveDailyAdjustments
handleSaveAdjustment(empId) ==
    /\ screen.savingEmpId = ""
    /\ empId \in DOMAIN screen.draftAdjustments
    /\ dailyAdjustments' = savedTable(dailyAdjustments, adjustmentDateNow, empId,
                                      screen.draftAdjustments[empId])
    /\ fetches' = Append(fetches, fetch("save_adjustments", dailyAdjustments'))
    /\ screen' = [screen EXCEPT !.savingEmpId = empId, !.rendered = today]
    /\ result' = reportOf(dailyAdjustments', screen.draftAdjustments,
                          adjustmentDateNow, today)
    /\ UNCHANGED <<today, draftFrame>>

\* the save is confirmed: the screen with the picker drops the saved drafts,
\* the other keeps them; or the save fails: the finally block only
saveSettles(confirmed) ==
    /\ screen.savingEmpId # ""
    /\ fetches # <<>>
    /\ fetches' = Tail(fetches)
    /\ screen' = [screen EXCEPT
                     !.savingEmpId = "",
                     !.draftAdjustments =
                         IF confirmed /\ screen.datePicker
                         THEN withoutDraft(@, screen.savingEmpId) ELSE @,
                     !.rendered = today]
    /\ result' = reportOf(dailyAdjustments, screen'.draftAdjustments,
                          adjustmentDateNow, today)
    /\ UNCHANGED <<dailyAdjustments, today, draftFrame>>

handleCancelAdjustment(empId) ==
    /\ empId \in DOMAIN screen.draftAdjustments
    /\ screen' = [screen EXCEPT !.draftAdjustments = withoutDraft(@, empId),
                                !.rendered = today]
    /\ result' = reportOf(dailyAdjustments, screen'.draftAdjustments,
                          adjustmentDateNow, today)
    /\ UNCHANGED <<dailyAdjustments, today, fetches, draftFrame>>

\* the date picker: the new date, and the drafts cleared
setAdjustmentDate(date) ==
    /\ screen.datePicker
    /\ screen' = [screen EXCEPT !.adjustmentDate = date,
                                !.draftAdjustments = EmptyMap,
                                !.rendered = today]
    /\ result' = reportOf(dailyAdjustments, EmptyMap, date, today)
    /\ UNCHANGED <<dailyAdjustments, today, fetches, draftFrame>>

\* the screen has mounted today and loadData has run
InitDraft ==
    /\ consumptions = DraftLogs
    /\ employees = << Employee("e1", TRUE), Employee("e2", TRUE) >>
    /\ activeEmployeeCount = 2
    /\ dailyAdjustments \in LoadedTables
    /\ today = 1
    /\ tally = NoTally
    /\ tz = 0
    /\ range = [startDate |-> 1, endDate |-> NumDays]
    /\ dailyGroupedLogs = groupedLogs(DraftLogs, 0)
    /\ \E picker \in BOOLEAN :
          screen = [NoScreen EXCEPT !.datePicker = picker,
                                    !.adjustmentDate = IF picker THEN 1 ELSE 0,
                                    !.rendered = 1]
    /\ result = reportOf(dailyAdjustments, EmptyMap, 1, 1)
    /\ StoreIdle

NextDraft ==
    \/ \E e \in EmpIds : \E i \in SnackIds : \E delta \in {0 - 1, 1} :
          handleDraftChange(e, i, delta)
    \/ \E e \in EmpIds : handleSaveAdjustment(e)
    \/ \E confirmed \in BOOLEAN : saveSettles(confirmed)
    \/ \E e \in EmpIds : handleCancelAdjustment(e)
    \/ \E date \in Days : setAdjustmentDate(date)
    \/ Tick

SpecDraft == InitDraft /\ [][NextDraft]_vars

\* C25: every count handleDraftChange writes lies between 0 and the units of
\* that item the employee consumed on the adjustment date, and every count
\* handleSaveAdjustment stores lies between 0 and the units consumed on the
\* date it is stored under.
C25_DraftsInRange ==
    [][ /\ \A e \in EmpIds : \A i \in SnackIds : \A delta \in {0 - 1, 1} :
              handleDraftChange(e, i, delta) =>
                  /\ screen'.draftAdjustments[e][i] >= 0
                  /\ screen'.draftAdjustments[e][i]
                         <= ConsumedUnits(adjustmentDateNow, e, i)
        /\ \A e \in EmpIds : handleSaveAdjustment(e) =>
              \A i \in DOMAIN screen.draftAdjustments[e] :
                  /\ CountAt(dailyAdjustments', <<adjustmentDateNow, e, i>>) >= 0
                  /\ CountAt(dailyAdjustments', <<adjustmentDateNow, e, i>>)
                         <= ConsumedUnits(adjustmentDateNow, e, i)
      ]_vars

\* the entry of a table under a key: absent, or its count
EntryAt(table, key) ==
    IF key \in Entries(table) THEN <<CountAt(table, key)>> ELSE <<>>

\* C26: handleSaveAdjustment for an employee changes, in the stored table,
\* only the counts of the items that employee has drafts for, under the
\* adjusted date and that employee: the entries of every other date, of every
\* other employee and of the employee's items without a draft stay as they
\* are, and the drafted items get the drafted counts.
C26_SaveFrame ==
    [][ \A e \in EmpIds : handleSaveAdjustment(e) =>
            \A key \in AdjKeys :
                IF key[1] = adjustmentDateNow /\ key[2] = e
                   /\ key[3] \in DOMAIN screen.draftAdjustments[e]
                THEN EntryAt(dailyAdjustments', key)
                         = <<screen.draftAdjustments[e][key[3]]>>
                ELSE EntryAt(dailyAdjustments', key) = EntryAt(dailyAdjustments, key)
      ]_vars

\* e1's drafts are being saved next to the stored count of e2 on the same day
C26_Witness ==
    /\ screen.savingEmpId = "e1"
    /\ EntryAt(dailyAdjustments, <<1, "e2", "bonda">>) = <<3>>
    /\ \E i \in SnackIds : EntryAt(dailyAdjustments, <<1, "e1", i>>) # <<>>

(***************************************************************************)
(* The itemised list of the payment request                                *)
(***************************************************************************)
\* counts[i.itemName] = { count, total }: one line per item name, which the
\* catalogue fixes per item; total adds i.price as it stands
getAggregatedItems(items) ==
    [name \in { items[k].itemId : k \in DOMAIN items } |->
        LET named == SelectSeq(items, LAMBDA i : i.itemId = name)
        IN [count |-> Len(named),
            total |-> SumSeq([k \in DOMAIN named |-> named[k].price])]]

RECURSIVE LinesSum(_, _)
LinesSum(lines, names) ==
    IF names = {} THEN [count |-> 0, total |-> 0]
    ELSE LET n == CHOOSE x \in names : TRUE
             rest == LinesSum(lines, names \ {n})
         IN [count |-> lines[n].count + rest.count,
             total |-> lines[n].total + rest.total]

\* what the lines "name xcount = total" of handleSendTelegram add up to
itemsList(bill) ==
    LET lines == getAggregatedItems(bill.payableItems)
    IN LinesSum(lines, DOMAIN lines)

\* C27: in every employee bill the number of payableItems is
\* originalItemCount - totalDeductedCount and the prices of payableItems add
\* up to finalPayableAmount, so the itemised list of the payment request adds
\* up to the total it asks for.
C27_ListMatchesAmount ==
    \A k \in DOMAIN result.employeeBills :
        LET bill == result.employeeBills[k]
        IN /\ Len(bill.payableItems) = bill.originalItemCount - bill.totalDeductedCount
           /\ itemsList(bill).count = Len(bill.payableItems)
           /\ SumPrices(bill.payableItems) = bill.finalPayableAmount
           /\ itemsList(bill).total = bill.finalPayableAmount

\* C27, amended: in every employee bill the number of payableItems is
\* originalItemCount - totalDeductedCount and the prices of payableItems add
\* up to originalAmount - totalDeductedAmount; finalPayableAmount is that sum
\* when the sum is not negative and 0 when it is, so the itemised list adds up
\* to the total requested whenever the listed units do not add up to less
\* than nothing.
C27_ListMatchesAmountAmended ==
    \A k \in DOMAIN result.employeeBills :
        LET bill == result.employeeBills[k]
        IN /\ Len(bill.payableItems) = bill.originalItemCount - bill.totalDeductedCount
           /\ itemsList(bill).count = Len(bill.payableItems)
           /\ SumPrices(bill.payableItems) = bill.originalAmount - bill.totalDeductedAmount
           /\ itemsList(bill).total = SumPrices(bill.payableItems)
           /\ bill.finalPayableAmount = Max(0, itemsList(bill).total)

\* a bill with deducted units and two kinds of payable units, whose list adds
\* up to less than nothing while the total requested is 0
C27_Witness ==
    \E k \in DOMAIN result.employeeBills :
        LET bill == result.employeeBills[k]
        IN /\ bill.totalDeductedCount > 0
           /\ Cardinality(DOMAIN getAggregatedItems(bill.payableItems)) = 2
           /\ itemsList(bill).total < 0
           /\ bill.finalPayableAmount = 0

(***************************************************************************)
(* Deactivating an employee                                                *)
(***************************************************************************)
\* DailyEntry.loadLocalData: the employees the entry form offers
loadLocalData(emps) == SelectSeq(emps, LAMBDA e : e.isActive)

\* the bills generateBill computes for one employee from the cache, without
\* the employee record they carry
billsFor(emps, cons, adj, todayStr, empId) ==
    LET res == calculateBilling(cons, emps, getActiveEmployeesCount(emps), adj, todayStr)
        mine == SelectSeq(res.employeeBills, LAMBDA b : b.employee.id = empId)
    IN [k \in DOMAIN mine |->
           [f \in DOMAIN mine[k] \ {"employee"} |-> mine[k][f]]]

\* saveEmployee called with an inactive copy of an employee who is active
Deactivates(emp) ==
    /\ ~emp.isActive
    /\ \E k \in DOMAIN employees : employees[k].id = emp.id /\ employees[k].isActive
    /\ saveEmployee(emp)

\* C28: setting an employee inactive with saveEmployee lowers
\* getActiveEmployeesCount by one and takes the employee off the employees
\* the entry form offers, while the consumption log and the bill
\* calculateBilling produces for that employee's existing snack records stay
\* as they were.
C28_DeactivationKeepsHistory ==
    [][ \A emp \in StoreEmployees : Deactivates(emp) =>
            /\ getActiveEmployeesCount(employees')
                  = getActiveEmployeesCount(employees) - 1
            /\ \A k \in DOMAIN loadLocalData(employees') :
                  loadLocalData(employees')[k].id # emp.id
            /\ \E k \in DOMAIN employees' : employees'[k] = emp
            /\ consumptions' = consumptions
            /\ billsFor(employees', consumptions', dailyAdjustments', today', emp.id)
                  = billsFor(employees, consumptions, dailyAdjustments, today, emp.id)
      ]_vars

\* e1 has just been set inactive and has a bill for a bonda already logged
C28_Witness ==
    /\ \E k \in DOMAIN employees : employees[k] = Employee("e1", FALSE)
    /\ fetches # <<>>
    /\ fetches[Len(fetches)].action = "save_employee"
    /\ fetches[Len(fetches)].data = Employee("e1", FALSE)
    /\ \E k \in DOMAIN consumptions : consumptions[k].itemType = "snack"
    /\ billsFor(employees, consumptions, dailyAdjustments, today, "e1") # <<>>

(***************************************************************************)
(* Submit events while a submit is in progress                             *)
(***************************************************************************)
\* the calls of the form's additions that have not settled
PendingAdds ==
    { i \in DOMAIN fetches : /\ fetches[i].action = "add_consumption_batch"
                             /\ fetches[i].state = "pending" }

\* C29: while a handleSubmit is in progress, with its storage calls still
\* pending, a submit event adds no record and removes none, and overlapping
\* submits never insert the entries of the same form twice: at most one
\* addition of the form is pending and each of its entries is in the log at
\* most once.
C29_OneSubmitAtATime ==
    /\ [][ \A selection \in Selections :
              (form.submitting /\ handleSubmit(selection)) =>
                  /\ consumptions' = consumptions
                  /\ fetches' = fetches ]_vars
    /\ [](/\ Cardinality(PendingAdds) <= 1
          /\ \A i \in PendingAdds : \A j \in DOMAIN fetches[i].data :
                Cardinality({ k \in DOMAIN consumptions :
                                 consumptions[k] = fetches[i].data[j] }) <= 1
          /\ form.running # NoRun => form.submitting)

\* a submit is in progress: its addition is pending and the handler set
\* submitting, so the next submit event meets the guard
C29_Witness ==
    /\ form.submitting
    /\ form.running.awaiting = "add"
    /\ PendingAdds # {}
    /\ \A i \in PendingAdds : \A j \in DOMAIN fetches[i].data :
          \E k \in DOMAIN consumptions : consumptions[k] = fetches[i].data[j]

(***************************************************************************)
(* geminiService.generateWeeklyInsight                                     *)
(***************************************************************************)
NoInsightsText == "No insights generated."
UnableText == "Unable to generate insights at this time."

\* response.text: a summary, an empty string, or undefined
ResponseTexts == { "Tea as usual, snacks up on Monday.", "", "undefined" }

\* tallyResults: the screens pass [], the signature takes any list
InsightTallies ==
    { <<>>, << [NoTally EXCEPT !.date = 1, !.gapFilled = 1, !.finalCompanyCost = 30] >> }

\* the promise generateWeeklyInsight returns; "idle" before the call
NoInsight == [state |-> "idle", value |-> ""]

\* .sort(([, a], [, b]) => b - a): descending by total, equal totals in the
\* order they had
RECURSIVE sortedByTotal(_)
sortedByTotal(entries) ==
    IF entries = <<>> THEN <<>>
    ELSE LET i == CHOOSE i \in DOMAIN entries :
                     /\ \A j \in DOMAIN entries : entries[j].total <= entries[i].total
                     /\ \A j \in 1..(i - 1) : entries[j].total < entries[i].total
         IN <<entries[i]>>
            \o sortedByTotal(SubSeq(entries, 1, i - 1)
                             \o SubSeq(entries, i + 1, Len(entries)))

\* calculateTopConsumers: price added up per consumer name, the three largest
calculateTopConsumers(cons, emps) ==
    LET names == KeysInOrder([k \in DOMAIN cons |-> NameOf(emps, cons[k].employeeId)])
        counts == [k \in DOMAIN names |->
                     [name |-> names[k],
                      total |-> SumSeq([j \in DOMAIN cons |->
                                   IF NameOf(emps, cons[j].employeeId) = names[k]
                                   THEN cons[j].price ELSE 0])]]
        sorted == sortedByTotal(counts)
    IN SubSeq(sorted, 1, Min(3, Len(sorted)))

\* summaryData, which the prompt carries as JSON; consumptions[0]?.date is
\* undefined on an empty list
summaryDataOf(cons, emps, tallyResults) ==
    [totalConsumptionCount |-> Len(cons),
     dateRange |-> [start |-> IF cons = <<>> THEN <<>> ELSE <<cons[1].date>>,
                    end |-> IF cons = <<>> THEN <<>> ELSE <<cons[Len(cons)].date>>],
     tallyAdjustments |-> [k \in DOMAIN tallyResults |->
                             [date |-> tallyResults[k].date,
                              gapFilled |-> tallyResults[k].gapFilled,
                              finalCost |-> tallyResults[k].finalCompanyCost]],
     topConsumers |-> calculateTopConsumers(cons, emps)]

insightFrame ==
    <<consumptions, employees, activeEmployeeCount, dailyAdjustments, today, tally,
      reportVars, cacheItems, form, loadVars>>

\* generateWeeklyInsight up to its await. new GoogleGenAI(...) runs before the
\* try: created says whether the constructor returned or threw. When it
\* returned, the prompt is built and generateContent is awaited inside the try.
generateWeeklyInsight(tallyResults, created) ==
    /\ result = NoInsight
    /\ IF created
       THEN /\ fetches' = << fetch("generateContent",
                                   summaryDataOf(consumptions, employees, tallyResults)) >>
            /\ result' = [state |-> "pending", value |-> ""]
       ELSE /\ fetches' = fetches
            /\ result' = [state |-> "rejected", value |-> "Error"]
    /\ UNCHANGED insightFrame

\* return response.text || "No insights generated."
contentResolves(text) ==
    /\ result.state = "pending"
    /\ fetches' = <<>>
    /\ result' = [state |-> "fulfilled",
                  value |-> IF text \in {"", "undefined"} THEN NoInsightsText ELSE text]
    /\ UNCHANGED insightFrame

\* catch (error): return "Unable to generate insights at this time."
contentRejects ==
    /\ result.state = "pending"
    /\ fetches' = <<>>
    /\ result' = [state |-> "fulfilled", value |-> UnableText]
    /\ UNCHANGED insightFrame

InitInsight ==
    /\ consumptions \in ConsumptionLists(TallyProtos, MaxTallyLogs)
    /\ employees \in EmployeeLists
    /\ activeEmployeeCount = getActiveEmployeesCount(employees)
    /\ dailyAdjustments = EmptyMap
    /\ today = 1
    /\ result = NoInsight
    /\ tally = NoTally
    /\ ReportIdle
    /\ StoreIdle

NextInsight ==
    \/ \E tallyResults \in InsightTallies, created \in BOOLEAN :
          generateWeeklyInsight(tallyResults, created)
    \/ \E text \in ResponseTexts : contentResolves(text)
    \/ contentRejects

SpecInsight == InitInsight /\ [][NextInsight]_vars

\* the service could not be created, or the call to it failed
ServiceFails ==
    \/ \E tallyResults \in InsightTallies : generateWeeklyInsight(tallyResults, FALSE)
    \/ contentRejects

\* C30: generateWeeklyInsight always resolves to a string: the promise is
\* never rejected, and whenever the generative service cannot be created or
\* called it is fulfilled with the fixed fallback text.
C30_SummaryNeverFails ==
    /\ [](result.state # "rejected")
    /\ [][ ServiceFails => result' = [state |-> "fulfilled", value |-> UnableText] ]_vars

====
